---------------------------- MODULE Spec2Model ----------------------------
(***************************************************************************)
(* Model of the file-comparison and rule-based refactoring engine:         *)
(*   - RefactoringEngine (src/src/services/refactoringEngine.ts)           *)
(*   - CodeAnalyzer      (src/unnamed/part_001, lines 207..687)            *)
(*                                                                         *)
(* A text is a sequence of one-character strings; a line is a text with no *)
(* "\n" in it.  A path is a text as well.                                  *)
(***************************************************************************)
EXTENDS Integers, Sequences, FiniteSets, TLC

VARIABLES
  disk,      \* the files of the target tree: full path -> content
  backups,   \* backup artifacts on durable storage: backup path -> snapshot
  call,      \* the frame of the refactorCode invocation in flight
  hist,      \* what the invocation did so far (reads, writes, rule steps)
  ana,       \* the CodeAnalyzer invocation: inputs and the value returned
  fn,        \* a method invoked on its own: its arguments and the value returned
  parked     \* the invocation that waits at an await while the other one runs

vars == <<disk, backups, call, hist, ana, fn, parked>>

---------------------------------------------------------------------------
(* Characters and strings                                                  *)

LowerChars == {"a","b","c","d","e","f","g","h","i","j","k","l","m",
               "n","o","p","q","r","s","t","u","v","w","x","y","z"}
UpperChars == {"A","B","C","D","E","F","G","H","I","J","K","L","M",
               "N","O","P","Q","R","S","T","U","V","W","X","Y","Z"}
DigitChars == {"0","1","2","3","4","5","6","7","8","9"}

\* JavaScript's \w, \s and \d.  A line never holds "\n".
IsWord(c) == c \in LowerChars \cup UpperChars \cup DigitChars \cup {"_"}
IsSpace(c) == c \in {" ", "\t", "\n", "\r"}
IsDigit(c) == c \in DigitChars

\* The code units of the printable characters, in order (String.prototype
\* comparisons and Array.prototype.sort order strings by code unit).
Ascii ==
  <<"\t", "\n", "\r", " ", "!", "\"", "#", "$", "%", "&", "'", "(", ")", "*", "+",
    ",", "-", ".", "/", "0", "1", "2", "3", "4", "5", "6", "7", "8", "9",
    ":", ";", "<", "=", ">", "?", "@",
    "A","B","C","D","E","F","G","H","I","J","K","L","M",
    "N","O","P","Q","R","S","T","U","V","W","X","Y","Z",
    "[", "\\", "]", "^", "_",
    "a","b","c","d","e","f","g","h","i","j","k","l","m",
    "n","o","p","q","r","s","t","u","v","w","x","y","z",
    "{", "|", "}", "~">>

CodeUnit(c) == CHOOSE i \in 1..Len(Ascii) : Ascii[i] = c

Min2(a, b) == IF a <= b THEN a ELSE b
Max2(a, b) == IF a >= b THEN a ELSE b
Abs(n) == IF n < 0 THEN -n ELSE n

\* s.substring(i-1): the text from the 1-based position i on.
From(s, i) == SubSeq(s, i, Len(s))

\* s.startsWith(t) at the 1-based position i.
MatchAt(s, i, t) ==
  /\ i >= 1
  /\ i + Len(t) - 1 <= Len(s)
  /\ SubSeq(s, i, i + Len(t) - 1) = t

StartsWith(s, t) == MatchAt(s, 1, t)

\* s.includes(t)
Includes(s, t) == \E i \in 1..(Len(s) - Len(t) + 1) : MatchAt(s, i, t)

\* s.trim()
RECURSIVE TrimLeft(_)
TrimLeft(s) ==
  IF s # <<>> /\ IsSpace(Head(s)) THEN TrimLeft(Tail(s)) ELSE s

RECURSIVE TrimRight(_)
TrimRight(s) ==
  IF s # <<>> /\ IsSpace(s[Len(s)]) THEN TrimRight(SubSeq(s, 1, Len(s) - 1)) ELSE s

Trim(s) == TrimRight(TrimLeft(s))

\* s.split(sep) for a one-character separator: always at least one piece.
RECURSIVE SplitOn(_, _)
SplitOn(s, sep) ==
  IF \A i \in 1..Len(s) : s[i] # sep
  THEN <<s>>
  ELSE LET k == CHOOSE i \in 1..Len(s) :
                  /\ s[i] = sep
                  /\ \A j \in 1..(i - 1) : s[j] # sep
       IN <<SubSeq(s, 1, k - 1)>> \o SplitOn(From(s, k + 1), sep)

SplitLines(s) == SplitOn(s, "\n")

\* pieces.join(sep)
RECURSIVE JoinWith(_, _)
JoinWith(pieces, sep) ==
  IF pieces = <<>> THEN <<>>
  ELSE IF Len(pieces) = 1 THEN pieces[1]
  ELSE pieces[1] \o <<sep>> \o JoinWith(Tail(pieces), sep)

JoinLines(ls) == JoinWith(ls, "\n")

\* (s.match(/c/g) || []).length for a one-character pattern.
CountChar(s, c) == Cardinality({i \in 1..Len(s) : s[i] = c})

\* The set of the elements of a sequence.
Range(s) == {s[i] : i \in 1..Len(s)}

\* The length of the longest run of \w (of \s) characters that starts at
\* the 1-based position i of s: 0 when s[i] is no such character.
RECURSIVE WordRun(_, _)
WordRun(s, i) ==
  IF i >= 1 /\ i <= Len(s) /\ IsWord(s[i]) THEN 1 + WordRun(s, i + 1) ELSE 0

RECURSIVE SpaceRun(_, _)
SpaceRun(s, i) ==
  IF i >= 1 /\ i <= Len(s) /\ IsSpace(s[i]) THEN 1 + SpaceRun(s, i + 1) ELSE 0


\* String literals of the source, as texts.
KW_FUNCTION == <<"f","u","n","c","t","i","o","n">>
KW_CONST == <<"c","o","n","s","t">>
KW_LET == <<"l","e","t">>
KW_VAR == <<"v","a","r">>
KW_IF == <<"i","f">>
KW_ELSE == <<"e","l","s","e">>
KW_FOR == <<"f","o","r">>
KW_WHILE == <<"w","h","i","l","e">>
KW_SWITCH == <<"s","w","i","t","c","h">>
KW_CASE == <<"c","a","s","e">>
KW_TRY == <<"t","r","y">>
KW_CATCH == <<"c","a","t","c","h">>
KW_CLASS == <<"c","l","a","s","s">>
KW_INTERFACE == <<"i","n","t","e","r","f","a","c","e">>
KW_TYPE == <<"t","y","p","e">>
KW_IMPORT == <<"i","m","p","o","r","t">>
KW_FROM == <<"f","r","o","m">>
KW_IMPORT_SP == <<"i","m","p","o","r","t"," ">>
KW_LET_SP == <<"l","e","t"," ">>
STR_COLON_STRING == <<":"," ","s","t","r","i","n","g"," ","="," ","\"">>
STR_COLON_NUMBER == <<":"," ","n","u","m","b","e","r"," ","="," ">>
STR_ARROW == <<")"," ","=",">"," ","{">>
STR_FUNCTION_P == <<"f","u","n","c","t","i","o","n","(">>
STR_FUNCTION_SP_P == <<"f","u","n","c","t","i","o","n"," ","(">>
STR_ASSIGN == <<" ","=">>
STR_PLUS_EQ == <<"+","=">>
STR_MINUS_EQ == <<"-","=">>
STR_PLUS_PLUS == <<"+","+">>
STR_MINUS_MINUS == <<"-","-">>
STR_NODE_MODULES == <<"n","o","d","e","_","m","o","d","u","l","e","s">>
STR_DOT_GIT == <<".","g","i","t">>
STR_BACKUP == <<".","b","a","c","k","u","p",".">>
ISO_NOW == <<"2","0","2","6","-","1","1","-","0","4","T","0","8",":","2","7",":","0","0",".","0","0","0","Z">>
KW_EXPORT == <<"e","x","p","o","r","t">>
KW_RETURN == <<"r","e","t","u","r","n">>
KW_THROW == <<"t","h","r","o","w">>
STR_LINE_COMMENT == <<"/","/">>
STR_BLOCK_COMMENT == <<"/","*">>
EXT_MD == <<".","m","d">>
STR_NO_CHANGES == <<"N","o"," ","s","i","g","n","i","f","i","c","a","n","t"," ","m","e","t","h","o","d"," ","o","r"," ","l","o","g","i","c"," ","c","h","a","n","g","e","s"," ","d","e","t","e","c","t","e","d",".">>
STR_FOUND == <<"F","o","u","n","d"," ">>
STR_SIGNIFICANT == <<" ","s","i","g","n","i","f","i","c","a","n","t"," ","c","h","a","n","g","e","(","s",")",":","\n">>
STR_DASH == <<"-"," ">>
STR_METHOD_RELATED == <<" ","m","e","t","h","o","d","-","r","e","l","a","t","e","d"," ","c","h","a","n","g","e","(","s",")","\n">>
STR_LOGIC_CHANGES == <<" ","l","o","g","i","c"," ","c","h","a","n","g","e","(","s",")","\n">>
STR_NONE == <<"n","o","n","e">>
EXT_TS == <<".","t","s">>
EXT_JS == <<".","j","s">>
EXT_TSX == <<".","t","s","x">>
EXT_JSX == <<".","j","s","x">>
EXT_PY == <<".","p","y">>
EXT_JAVA == <<".","j","a","v","a">>
EXT_CPP == <<".","c","p","p">>
EXT_C == <<".","c">>
EXT_CS == <<".","c","s">>
EXT_GO == <<".","g","o">>
EXT_RS == <<".","r","s">>

\* s.toLowerCase() on the ASCII letters.
UpperSeq == <<"A","B","C","D","E","F","G","H","I","J","K","L","M",
              "N","O","P","Q","R","S","T","U","V","W","X","Y","Z">>
DigitSeq == <<"0","1","2","3","4","5","6","7","8","9">>
LowerSeq == <<"a","b","c","d","e","f","g","h","i","j","k","l","m",
              "n","o","p","q","r","s","t","u","v","w","x","y","z">>
ToLowerChar(c) ==
  IF c \in UpperChars THEN LowerSeq[CHOOSE i \in 1..26 : UpperSeq[i] = c] ELSE c
ToUpperChar(c) ==
  IF c \in LowerChars THEN UpperSeq[CHOOSE i \in 1..26 : LowerSeq[i] = c] ELSE c
ToLowerCase(s) == [i \in 1..Len(s) |-> ToLowerChar(s[i])]

\* path.extname(p): from the last "." of the last path segment on; empty when
\* the segment has no "." or only a leading one.
ExtName(p) ==
  LET slashes == {i \in 1..Len(p) : p[i] = "/"}
      start   == IF slashes = {} THEN 1
                 ELSE 1 + CHOOSE i \in slashes : \A j \in slashes : j <= i
      base    == From(p, start)
      dots    == {i \in 1..Len(base) : base[i] = "."}
      last    == CHOOSE i \in dots : \A j \in dots : j <= i
  IN IF dots = {} \/ last = 1 THEN <<>> ELSE From(base, last)

\* path.join(dir, name)
PathJoin(dir, name) == dir \o <<"/">> \o name

---------------------------------------------------------------------------
(* CodeAnalyzer: the Relationship Inferencer                               *)

\* A confidence is the quotient num/den of two integers, den > 0, as the
\* double the code computes it from them: quotients of small integers
\* compare as the rationals do, and p/q > 0.7 exactly when 10p > 7q.
Conf(n, d) == [num |-> n, den |-> d]
ConfGT(a, b) == a.num * b.den > b.num * a.den
ConfGE(a, b) == a.num * b.den >= b.num * a.den
ConfEq(a, b) == a.num * b.den = b.num * a.den
ConfOne == Conf(1, 1)
ConfZero == Conf(0, 1)

\* The acceptance threshold 0.7 and the fixed confidence 0.9 of a logic change.
RenameThreshold == Conf(7, 10)
LogicConfidence == Conf(9, 10)

Min3(a, b, c) == Min2(a, Min2(b, c))

\* The inner loop of levenshteinDistance at row i: matrix[i][0..j], from
\* prev, the whole of matrix[i-1]; position p of a row is column p - 1.
RECURSIVE LevRow(_, _, _, _, _)
LevRow(str1, str2, i, prev, j) ==
  IF j = 0 THEN <<i>>
  ELSE LET row == LevRow(str1, str2, i, prev, j - 1)
       IN Append(row, IF str2[i] = str1[j] THEN prev[j]
                      ELSE Min3(prev[j] + 1, row[j] + 1, prev[j + 1] + 1))

\* Row i of the matrix: matrix[0][j] = j, and the outer loop fills the rows
\* below it one after the other.
RECURSIVE LevMatrixRow(_, _, _)
LevMatrixRow(str1, str2, i) ==
  IF i = 0 THEN [p \in 1..(Len(str1) + 1) |-> p - 1]
  ELSE LET prev == LevMatrixRow(str1, str2, i - 1)
       IN LevRow(str1, str2, i, prev, Len(prev) - 1)

\* The difference of the two lengths in place of the distance.
lengthDifference(str1, str2) == Abs(Len(str1) - Len(str2))

\* levenshteinDistance: the matrix has a row per character of str2 and a
\* column per character of str1.
levenshteinDistance(str1, str2) ==
  LevMatrixRow(str1, str2, Len(str2))[Len(str1) + 1]

\* calculateMethodSimilarity with the distance taken relative to the shorter
\* name.
similarityByShorter(method1, method2) ==
  IF method1 = method2 THEN ConfOne
  ELSE LET longer  == IF Len(method1) > Len(method2) THEN method1 ELSE method2
           shorter == IF Len(method1) > Len(method2) THEN method2 ELSE method1
       IN IF Len(shorter) = 0 THEN ConfOne
          ELSE Conf(Len(shorter) - levenshteinDistance(longer, shorter), Len(shorter))

calculateMethodSimilarity(method1, method2) ==
  IF method1 = method2 THEN ConfOne
  ELSE LET longer  == IF Len(method1) > Len(method2) THEN method1 ELSE method2
           shorter == IF Len(method1) > Len(method2) THEN method2 ELSE method1
       IN IF Len(longer) = 0 THEN ConfOne
          ELSE Conf(Len(longer) - levenshteinDistance(longer, shorter), Len(longer))

\* The keywords of /(?:function\s+|const\s+|let\s+|var\s+)(\w+)/
DeclKeywords == <<KW_FUNCTION, KW_CONST, KW_LET, KW_VAR>>

\* Whether the declaration pattern matches at position i of the line: a
\* keyword, at least one \s, then at least one \w.
DeclMatchAt(line, i) ==
  \E k \in 1..Len(DeclKeywords) :
    LET kw == DeclKeywords[k]
        sp == SpaceRun(line, i + Len(kw))
    IN /\ MatchAt(line, i, kw)
       /\ sp >= 1
       /\ WordRun(line, i + Len(kw) + sp) >= 1

\* line.match(/(?:function\s+|const\s+|let\s+|var\s+)(\w+)/): group 1 of the
\* leftmost match, or the empty text when there is none (a group is never
\* empty).
functionMatch(line) ==
  LET hits == {i \in 1..Len(line) : DeclMatchAt(line, i)}
  IN IF hits = {} THEN <<>>
     ELSE LET i  == CHOOSE h \in hits : \A g \in hits : h <= g
              kw == DeclKeywords[CHOOSE k \in 1..Len(DeclKeywords) :
                                   MatchAt(line, i, DeclKeywords[k])]
              j  == i + Len(kw) + SpaceRun(line, i + Len(kw))
          IN SubSeq(line, j, j + WordRun(line, j) - 1)

\* Whether /(\w+)\s*\(/ matches at position i: \w+ takes the whole run of
\* word characters from i, \s* the spaces after it, and "(" follows.
CallMatchAt(line, i) ==
  LET w == WordRun(line, i)
      k == i + w + SpaceRun(line, i + w)
  IN w >= 1 /\ k <= Len(line) /\ line[k] = "("

\* line.match(/(\w+)\s*\(/): group 1 of the leftmost match, or the empty text.
methodMatch(line) ==
  LET hits == {i \in 1..Len(line) : CallMatchAt(line, i)}
  IN IF hits = {} THEN <<>>
     ELSE LET i == CHOOSE h \in hits : \A g \in hits : h <= g
          IN SubSeq(line, i, i + WordRun(line, i) - 1)

RECURSIVE extractMethodsOf(_)
extractMethodsOf(lines) ==
  IF lines = <<>> THEN <<>>
  ELSE LET line == Head(lines)
           here == IF functionMatch(line) # <<>> THEN <<functionMatch(line)>>
                   ELSE IF /\ methodMatch(line) # <<>>
                           /\ ~Includes(line, KW_IF)
                           /\ ~Includes(line, KW_FOR)
                           /\ ~Includes(line, KW_WHILE)
                        THEN <<methodMatch(line)>>
                   ELSE <<>>
       IN here \o extractMethodsOf(Tail(lines))

extractMethods(content) == extractMethodsOf(SplitLines(content))

\* PassesThreshold with the threshold itself let through.
PassesThresholdInclusive(confidence) == ConfGE(confidence, RenameThreshold)

\* confidence > 0.7
PassesThreshold(confidence) == ConfGT(confidence, RenameThreshold)

\* The inner loop of analyzeRelationships over remoteMethods[k..]: the
\* running best match, [bestMatch, bestConfidence]; bestMatch = <<>> is null.
RECURSIVE BestMatchFrom(_, _, _, _)
BestMatchFrom(localMethod, remoteMethods, k, best) ==
  IF k > Len(remoteMethods) THEN best
  ELSE LET remoteMethod == remoteMethods[k]
           confidence   == calculateMethodSimilarity(localMethod, remoteMethod)
       IN BestMatchFrom(localMethod, remoteMethods, k + 1,
            IF ConfGT(confidence, best.bestConfidence) /\ PassesThreshold(confidence)
            THEN [bestMatch |-> remoteMethod, bestConfidence |-> confidence]
            ELSE best)

BestMatch(localMethod, remoteMethods) ==
  BestMatchFrom(localMethod, remoteMethods, 1,
                [bestMatch |-> <<>>, bestConfidence |-> ConfZero])

RenameRecord(localMethod, best) ==
  [type          |-> "method_rename",
   oldReference  |-> best.bestMatch,
   newReference  |-> localMethod,
   confidence    |-> best.bestConfidence,
   description   |-> <<"renamed", best.bestMatch, localMethod>>]

\* analyzeRelationships without the test bestMatch !== localMethod.
RECURSIVE RelationshipsWithSameName(_, _)
RelationshipsWithSameName(localMethods, remoteMethods) ==
  IF localMethods = <<>> THEN <<>>
  ELSE LET localMethod == Head(localMethods)
           best        == BestMatch(localMethod, remoteMethods)
       IN (IF best.bestMatch # <<>>
           THEN <<RenameRecord(localMethod, best)>>
           ELSE <<>>)
          \o RelationshipsWithSameName(Tail(localMethods), remoteMethods)

analyzeRelationshipsWithSameName(localContent, remoteContent) ==
  RelationshipsWithSameName(extractMethods(localContent), extractMethods(remoteContent))

RECURSIVE RelationshipsOf(_, _)
RelationshipsOf(localMethods, remoteMethods) ==
  IF localMethods = <<>> THEN <<>>
  ELSE LET localMethod == Head(localMethods)
           best        == BestMatch(localMethod, remoteMethods)
       IN (IF best.bestMatch # <<>> /\ best.bestMatch # localMethod
           THEN <<RenameRecord(localMethod, best)>>
           ELSE <<>>)
          \o RelationshipsOf(Tail(localMethods), remoteMethods)

analyzeRelationships(localContent, remoteContent) ==
  RelationshipsOf(extractMethods(localContent), extractMethods(remoteContent))

trackMethodChanges(localContent, remoteContent, fileExtension) ==
  analyzeRelationships(localContent, remoteContent)

controlFlowKeywords ==
  <<KW_IF, KW_ELSE, KW_FOR, KW_WHILE, KW_SWITCH, KW_CASE, KW_TRY, KW_CATCH>>

\* extractControlFlow without the break: a line is pushed once for every
\* keyword it holds.
RECURSIVE controlFlowPerKeywordOf(_)
controlFlowPerKeywordOf(lines) ==
  IF lines = <<>> THEN <<>>
  ELSE LET trimmed == Trim(Head(lines))
           hits    == SelectSeq(controlFlowKeywords, LAMBDA kw : Includes(trimmed, kw))
       IN [k \in 1..Len(hits) |-> trimmed] \o controlFlowPerKeywordOf(Tail(lines))

extractControlFlowPerKeyword(content) == controlFlowPerKeywordOf(SplitLines(content))

RECURSIVE extractControlFlowOf(_)
extractControlFlowOf(lines) ==
  IF lines = <<>> THEN <<>>
  ELSE LET trimmed == Trim(Head(lines))
       IN (IF \E k \in 1..Len(controlFlowKeywords) :
                 Includes(trimmed, controlFlowKeywords[k])
           THEN <<trimmed>> ELSE <<>>)
          \o extractControlFlowOf(Tail(lines))

extractControlFlow(content) == extractControlFlowOf(SplitLines(content))

\* An absent field of a compareArrays entry (undefined).  An entry of a
\* control-flow sequence is a trimmed line holding a keyword, never empty.
Undefined == <<>>

\* compareArrays from index i on (1-based here).
RECURSIVE compareArraysFrom(_, _, _)
compareArraysFrom(arr1, arr2, i) ==
  IF i > Max2(Len(arr1), Len(arr2)) THEN <<>>
  ELSE (IF i > Len(arr1)
        THEN <<[old |-> Undefined, new |-> arr2[i], description |-> "Added control flow"]>>
        ELSE IF i > Len(arr2)
        THEN <<[old |-> arr1[i], new |-> Undefined, description |-> "Removed control flow"]>>
        ELSE IF arr1[i] # arr2[i]
        THEN <<[old |-> arr1[i], new |-> arr2[i], description |-> "Modified control flow"]>>
        ELSE <<>>)
       \o compareArraysFrom(arr1, arr2, i + 1)

compareArrays(arr1, arr2) == compareArraysFrom(arr1, arr2, 1)

\* diff.old || "none": an absent or empty reference reads "none".
OrNone(ref) == IF ref = Undefined THEN STR_NONE ELSE ref

LogicRecord(d) ==
  [type          |-> "logic_change",
   oldReference  |-> OrNone(d.old),
   newReference  |-> OrNone(d.new),
   confidence    |-> LogicConfidence,
   description   |-> <<d.description, d.old, d.new>>]

analyzeLogicChanges(localContent, remoteContent, fileExtension) ==
  LET controlFlowDiff ==
        compareArrays(extractControlFlow(localContent), extractControlFlow(remoteContent))
  IN [k \in 1..Len(controlFlowDiff) |-> LogicRecord(controlFlowDiff[k])]

codeExtensions ==
  <<EXT_TS, EXT_JS, EXT_TSX, EXT_JSX, EXT_PY, EXT_JAVA, EXT_CPP, EXT_C, EXT_CS, EXT_GO, EXT_RS>>

isCodeFile(extension) == ToLowerCase(extension) \in Range(codeExtensions)


---------------------------------------------------------------------------
(* CodeAnalyzer: the Line Differ                                           *)

\* The line tokens of a text: each line with the "\n" that ends it; a last
\* line with no "\n" is a token too, and the empty text has no token.
RECURSIVE LineTokens(_)
LineTokens(text) ==
  IF text = <<>> THEN <<>>
  ELSE IF \A i \in 1..Len(text) : text[i] # "\n" THEN <<text>>
  ELSE LET k == CHOOSE i \in 1..Len(text) :
                  /\ text[i] = "\n"
                  /\ \A j \in 1..(i - 1) : text[j] # "\n"
       IN <<SubSeq(text, 1, k)>> \o LineTokens(From(text, k + 1))

\* The length of a longest common subsequence of the token sequences
\* a[i+1..] and b[j+1..], for every i and j.
LcsTable(a, b) ==
  LET L[i \in 0..Len(a), j \in 0..Len(b)] ==
        IF i = Len(a) \/ j = Len(b) THEN 0
        ELSE IF a[i + 1] = b[j + 1] THEN 1 + L[i + 1, j + 1]
        ELSE Max2(L[i + 1, j], L[i, j + 1])
  IN L

\* A shortest edit script from a to b, one entry per token: a common token
\* is kept, and where the texts part a removal comes before an addition.
RECURSIVE EditScriptFrom(_, _, _, _, _)
EditScriptFrom(a, b, L, i, j) ==
  IF i = Len(a) /\ j = Len(b) THEN <<>>
  ELSE IF i < Len(a) /\ j < Len(b) /\ a[i + 1] = b[j + 1]
       THEN <<[added |-> FALSE, removed |-> FALSE, value |-> a[i + 1]]>>
            \o EditScriptFrom(a, b, L, i + 1, j + 1)
  ELSE IF i < Len(a) /\ (j = Len(b) \/ L[i + 1, j] >= L[i, j + 1])
       THEN <<[added |-> FALSE, removed |-> TRUE, value |-> a[i + 1]]>>
            \o EditScriptFrom(a, b, L, i + 1, j)
  ELSE <<[added |-> TRUE, removed |-> FALSE, value |-> b[j + 1]]>>
       \o EditScriptFrom(a, b, L, i, j + 1)

\* Consecutive entries of one kind joined into one block.
RECURSIVE MergeParts(_)
MergeParts(script) ==
  IF Len(script) <= 1 THEN script
  ELSE LET rest == MergeParts(Tail(script))
           p    == Head(script)
           q    == Head(rest)
       IN IF p.added = q.added /\ p.removed = q.removed
          THEN <<[p EXCEPT !.value = p.value \o q.value]>> \o Tail(rest)
          ELSE <<p>> \o rest

\* diffLines(oldStr, newStr): the blocks of a line diff, each tagged added,
\* removed or neither (unchanged).
diffLines(oldStr, newStr) ==
  LET a == LineTokens(oldStr)
      b == LineTokens(newStr)
  IN MergeParts(EditScriptFrom(a, b, LcsTable(a, b), 0, 0))

\* compareFilesDiff with the two texts in each other's place.
compareFilesDiffSwapped(localContent, remoteContent) ==
  diffLines(localContent, remoteContent)

\* compareFiles' call of the differ: the baseline is the old text.
compareFilesDiff(localContent, remoteContent) ==
  diffLines(remoteContent, localContent)

\* The values of the blocks satisfying keep, concatenated in order.
RECURSIVE ConcatValues(_)
ConcatValues(parts) ==
  IF parts = <<>> THEN <<>> ELSE Head(parts).value \o ConcatValues(Tail(parts))

UnchangedAndRemoved(parts) == SelectSeq(parts, LAMBDA p : ~p.added)
UnchangedAndAdded(parts) == SelectSeq(parts, LAMBDA p : ~p.removed)

---------------------------------------------------------------------------
(* CodeAnalyzer: compareFiles and analyzeChanges                           *)

\* The significance with the medium indicators looked at first.
significanceMediumFirst(line) ==
  LET trimmedLine == Trim(line)
  IN IF \/ Includes(trimmedLine, KW_CONST)
        \/ Includes(trimmedLine, KW_LET)
        \/ Includes(trimmedLine, KW_VAR)
        \/ Includes(trimmedLine, KW_RETURN)
        \/ Includes(trimmedLine, KW_THROW)
     THEN "medium"
     ELSE IF \/ Includes(trimmedLine, KW_EXPORT)
             \/ Includes(trimmedLine, KW_IMPORT)
             \/ Includes(trimmedLine, KW_CLASS)
             \/ Includes(trimmedLine, KW_FUNCTION)
             \/ Includes(trimmedLine, KW_INTERFACE)
             \/ Includes(trimmedLine, KW_TYPE)
     THEN "high"
     ELSE IF \/ StartsWith(trimmedLine, STR_LINE_COMMENT)
             \/ StartsWith(trimmedLine, STR_BLOCK_COMMENT)
             \/ trimmedLine = <<>>
     THEN "low"
     ELSE "medium"

assessSignificance(line) ==
  LET trimmedLine == Trim(line)
  IN IF \/ Includes(trimmedLine, KW_EXPORT)
        \/ Includes(trimmedLine, KW_IMPORT)
        \/ Includes(trimmedLine, KW_CLASS)
        \/ Includes(trimmedLine, KW_FUNCTION)
        \/ Includes(trimmedLine, KW_INTERFACE)
        \/ Includes(trimmedLine, KW_TYPE)
     THEN "high"
     ELSE IF \/ Includes(trimmedLine, KW_CONST)
             \/ Includes(trimmedLine, KW_LET)
             \/ Includes(trimmedLine, KW_VAR)
             \/ Includes(trimmedLine, KW_RETURN)
             \/ Includes(trimmedLine, KW_THROW)
     THEN "medium"
     ELSE IF \/ StartsWith(trimmedLine, STR_LINE_COMMENT)
             \/ StartsWith(trimmedLine, STR_BLOCK_COMMENT)
             \/ trimmedLine = <<>>
     THEN "low"
     ELSE "medium"

\* The inner loop over the lines of an added or removed block: a change for
\* every line that is not blank, numbered lineNumber, lineNumber + 1, ...
RECURSIVE BlockChanges(_, _, _)
BlockChanges(lines, type, lineNumber) ==
  IF lines = <<>> THEN <<>>
  ELSE IF Trim(Head(lines)) # <<>>
       THEN <<[type |-> type, lineNumber |-> lineNumber, content |-> Head(lines),
               significance |-> assessSignificance(Head(lines))]>>
            \o BlockChanges(Tail(lines), type, lineNumber + 1)
  ELSE BlockChanges(Tail(lines), type, lineNumber)

\* The changes of one block of the diff, by its kind.
PartChanges(part, lineNumber) ==
  IF part.added THEN BlockChanges(SplitLines(part.value), "added", lineNumber)
  ELSE IF part.removed THEN BlockChanges(SplitLines(part.value), "removed", lineNumber)
  ELSE <<>>

\* lineNumber after a block: advanced by one for every change pushed, or by
\* the number of "\n" of an unchanged block.
LineNumberAfter(part, lineNumber, pushed) ==
  IF part.added \/ part.removed THEN lineNumber + pushed
  ELSE lineNumber + Len(SplitLines(part.value)) - 1

\* The loop of compareFiles over the blocks of the diff.
RECURSIVE ChangesFrom(_, _)
ChangesFrom(diff, lineNumber) ==
  IF diff = <<>> THEN <<>>
  ELSE PartChanges(Head(diff), lineNumber)
       \o ChangesFrom(Tail(diff),
            LineNumberAfter(Head(diff), lineNumber, Len(PartChanges(Head(diff), lineNumber))))

\* The number of entries of a sequence that satisfy nothing but a field test.
CountType(changes, type) == Len(SelectSeq(changes, LAMBDA c : c.type = type))
CountHigh(changes) == Len(SelectSeq(changes, LAMBDA c : c.significance = "high"))

\* The score with no upper limit.
complexityScoreUnbounded(changes, relationships) ==
  Conf(Len(changes) + 5 * CountHigh(changes) + 3 * Len(relationships), 10)

\* The score with the high changes taken off instead of added.
complexityScoreLessHigh(changes, relationships) ==
  Conf(Max2(0, Min2(Len(changes) - 5 * CountHigh(changes) + 3 * Len(relationships), 100)), 10)

\* score = changes * 0.1 + high * 0.5 + relationships * 0.3, at most 10, as
\* the quotient of tenths.
calculateComplexityScore(changes, relationships) ==
  Conf(Min2(Len(changes) + 5 * CountHigh(changes) + 3 * Len(relationships), 100), 10)

\* The impact with the two score limits taken inclusively.
impactWithInclusiveLimits(complexityScore, significantChanges) ==
  IF ConfGE(Conf(3, 1), complexityScore) /\ significantChanges < 5 THEN "low"
  ELSE IF ConfGE(Conf(7, 1), complexityScore) /\ significantChanges < 15 THEN "medium"
  ELSE "high"

assessMaintainabilityImpact(complexityScore, significantChanges) ==
  IF ConfGT(Conf(3, 1), complexityScore) /\ significantChanges < 5 THEN "low"
  ELSE IF ConfGT(Conf(7, 1), complexityScore) /\ significantChanges < 15 THEN "medium"
  ELSE "high"

calculateMetrics(changes, relationships) ==
  [totalChanges          |-> Len(changes),
   significantChanges    |-> CountHigh(changes),
   complexityScore       |-> calculateComplexityScore(changes, relationships),
   maintainabilityImpact |->
      assessMaintainabilityImpact(calculateComplexityScore(changes, relationships),
                                  CountHigh(changes))]

\* The recommendations cut after the first one.
firstRecommendationOnly(changes, relationships, metrics) ==
  IF metrics.maintainabilityImpact = "high"
  THEN <<"Consider breaking this change into smaller, more focused commits">>
  ELSE IF \E k \in 1..Len(relationships) : relationships[k].type = "method_rename"
  THEN <<"Update documentation and comments to reflect method renames">>
  ELSE IF CountType(changes, "removed") > CountType(changes, "added")
  THEN <<"Verify that removed functionality is intentional and properly handled">>
  ELSE IF ConfGT(metrics.complexityScore, Conf(7, 1))
  THEN <<"Consider adding unit tests to cover the complex changes">>
  ELSE <<>>

generateRecommendations(changes, relationships, metrics) ==
  (IF metrics.maintainabilityImpact = "high"
   THEN <<"Consider breaking this change into smaller, more focused commits">>
   ELSE <<>>)
  \o (IF \E k \in 1..Len(relationships) : relationships[k].type = "method_rename"
      THEN <<"Update documentation and comments to reflect method renames">>
      ELSE <<>>)
  \o (IF CountType(changes, "removed") > CountType(changes, "added")
      THEN <<"Verify that removed functionality is intentional and properly handled">>
      ELSE <<>>)
  \o (IF ConfGT(metrics.complexityScore, Conf(7, 1))
      THEN <<"Consider adding unit tests to cover the complex changes">>
      ELSE <<>>)

\* A natural number in decimal, as a template literal prints it.
RECURSIVE Decimal(_)
Decimal(n) ==
  IF n < 10 THEN <<DigitSeq[n + 1]>>
  ELSE Decimal(n \div 10) \o <<DigitSeq[(n % 10) + 1]>>

generateChangeSummary(methodChanges, logicChanges) ==
  IF Len(methodChanges) + Len(logicChanges) = 0 THEN STR_NO_CHANGES
  ELSE STR_FOUND \o Decimal(Len(methodChanges) + Len(logicChanges)) \o STR_SIGNIFICANT
       \o (IF Len(methodChanges) > 0
           THEN STR_DASH \o Decimal(Len(methodChanges)) \o STR_METHOD_RELATED
           ELSE <<>>)
       \o (IF Len(logicChanges) > 0
           THEN STR_DASH \o Decimal(Len(logicChanges)) \o STR_LOGIC_CHANGES
           ELSE <<>>)

\* The relationships with the logic changes after the renames.
RelationshipsWithLogicChanges(depth, localContent, remoteContent) ==
  IF depth = "detailed" \/ depth = "comprehensive"
  THEN analyzeRelationships(localContent, remoteContent)
       \o analyzeLogicChanges(localContent, remoteContent, EXT_TS)
  ELSE <<>>

\* The relationships asked for at every depth.
RelationshipsAtAnyDepth(depth, localContent, remoteContent) ==
  analyzeRelationships(localContent, remoteContent)

\* The relationships compareFiles asks for at the given depth.
RelationshipsAt(depth, localContent, remoteContent) ==
  IF depth = "detailed" \/ depth = "comprehensive"
  THEN analyzeRelationships(localContent, remoteContent)
  ELSE <<>>

\* compareFiles from the changes and the relationships on.
ComparisonResult(changes, relationships, metrics) ==
  [changes         |-> changes,
   relationships   |-> relationships,
   recommendations |-> generateRecommendations(changes, relationships, metrics),
   metrics         |-> metrics]

ComparisonOf(changes, relationships) ==
  ComparisonResult(changes, relationships, calculateMetrics(changes, relationships))

compareFiles(localContent, remoteContent, depth) ==
  ComparisonOf(ChangesFrom(compareFilesDiff(localContent, remoteContent), 0),
               RelationshipsAt(depth, localContent, remoteContent))

\* analyzeChanges from the two lists on.
ChangeAnalysis(methodChanges, logicChanges) ==
  [methodChanges |-> methodChanges,
   logicChanges  |-> logicChanges,
   summary       |-> generateChangeSummary(methodChanges, logicChanges)]

analyzeChanges(localContent, fileExtension, remoteContent, options) ==
  ChangeAnalysis(
    IF options.methodTracking /\ isCodeFile(fileExtension)
    THEN trackMethodChanges(localContent, remoteContent, fileExtension) ELSE <<>>,
    IF options.logicAnalysis /\ isCodeFile(fileExtension)
    THEN analyzeLogicChanges(localContent, remoteContent, fileExtension) ELSE <<>>)



---------------------------------------------------------------------------
(* RefactoringEngine: the rules                                            *)

\* CodeAnalyzer.extractPatterns: the pattern hints handed to every refactor.
extractPatterns ==
  [namingPatterns     |-> {"camelCase for variables and functions",
                           "PascalCase for classes and types",
                           "UPPER_SNAKE_CASE for constants"},
   structuralPatterns |-> {"Import statements at top of file",
                           "Type definitions before implementations",
                           "Export statements at end of file"},
   codingStyles       |-> <<"Use explicit types",
                            "Prefer const over let",
                            "Use arrow functions for callbacks">>]

\* str.replace(/_([a-z])/g, (_, letter) => letter.toUpperCase())
RECURSIVE UnderscoreToUpper(_)
UnderscoreToUpper(str) ==
  IF str = <<>> THEN <<>>
  ELSE IF Len(str) >= 2 /\ str[1] = "_" /\ str[2] \in LowerChars
       THEN <<ToUpperChar(str[2])>> \o UnderscoreToUpper(From(str, 3))
  ELSE <<Head(str)>> \o UnderscoreToUpper(Tail(str))

toCamelCase(str) ==
  LET t == UnderscoreToUpper(str)
  IN IF t # <<>> /\ t[1] \in UpperChars THEN <<ToLowerChar(t[1])>> \o Tail(t) ELSE t

toPascalCase(str) ==
  LET t == UnderscoreToUpper(str)
  IN IF t # <<>> /\ t[1] \in LowerChars THEN <<ToUpperChar(t[1])>> \o Tail(t) ELSE t

\* \b at position i of the line (between line[i-1] and line[i]).
WordBoundary(line, i) ==
  LET before == i >= 2 /\ i - 1 <= Len(line) /\ IsWord(line[i - 1])
      after  == i >= 1 /\ i <= Len(line) /\ IsWord(line[i])
  IN before # after

variableKeywords == <<KW_CONST, KW_LET, KW_VAR, KW_FUNCTION>>
classKeywords == <<KW_CLASS, KW_INTERFACE, KW_TYPE>>

\* Whether the word w matches [a-z_]+[A-Z_][a-zA-Z0-9_]* as a whole.
IsSnakeOrMixedName(w) ==
  \E p \in 2..Len(w) :
    /\ w[p] \in UpperChars \cup {"_"}
    /\ \A q \in 1..(p - 1) : w[q] \in LowerChars \cup {"_"}

\* Whether the word w matches [a-z][a-zA-Z0-9_]* as a whole.
IsLowerInitialName(w) == w # <<>> /\ w[1] \in LowerChars

\* A match of /\b(?:kw1|kw2|...)\s+(NAME)\b/ at position i: the keyword, the
\* spaces, and the whole word after them as the name, which the trailing \b
\* makes end where the run of word characters ends.
DeclAt(line, i, keywords, mode) ==
  \E k \in 1..Len(keywords) :
    LET kw == keywords[k]
        sp == SpaceRun(line, i + Len(kw))
        j  == i + Len(kw) + sp
        w  == SubSeq(line, j, j + WordRun(line, j) - 1)
    IN /\ MatchAt(line, i, kw)
       /\ WordBoundary(line, i)
       /\ sp >= 1
       /\ IF mode = "camel" THEN IsSnakeOrMixedName(w) ELSE IsLowerInitialName(w)

\* s.replace(t, r) with a string t: the first occurrence of t gives way to r.
ReplaceFirst(s, t, r) ==
  LET hits == {i \in 1..(Len(s) - Len(t) + 1) : MatchAt(s, i, t)}
  IN IF hits = {} THEN s
     ELSE LET i == CHOOSE h \in hits : \A g \in hits : h <= g
          IN SubSeq(s, 1, i - 1) \o r \o From(s, i + Len(t))

\* The callback of the replace: match.replace(name, converted), which is the
\* match itself when the converted name is the name.
ConvertName(match, name, mode) ==
  ReplaceFirst(match, name, IF mode = "camel" THEN toCamelCase(name) ELSE toPascalCase(name))

\* line.replace(regex, callback) with the g flag, from position pos on: each
\* match, left to right, gives way to the match with its name converted.
RECURSIVE ReplaceDecls(_, _, _, _)
ReplaceDecls(line, pos, keywords, mode) ==
  LET hits == {i \in pos..Len(line) : DeclAt(line, i, keywords, mode)}
  IN IF hits = {} THEN From(line, pos)
     ELSE LET i  == CHOOSE h \in hits : \A g \in hits : h <= g
              kw == keywords[CHOOSE k \in 1..Len(keywords) : MatchAt(line, i, keywords[k])]
              j  == i + Len(kw) + SpaceRun(line, i + Len(kw))
              e  == j + WordRun(line, j)
              nm == SubSeq(line, j, e - 1)
          IN SubSeq(line, pos, i - 1)
             \o ConvertName(SubSeq(line, i, e - 1), nm, mode)
             \o ReplaceDecls(line, e, keywords, mode)

\* The camelCase branch of applyNamingPatterns' loop body.
CamelLine(line, namingPatterns) ==
  IF "camelCase for variables and functions" \in namingPatterns
  THEN ReplaceDecls(line, 1, variableKeywords, "camel") ELSE line

\* The PascalCase branch, which works on what the camelCase branch left.
PascalLine(camel, namingPatterns) ==
  IF "PascalCase for classes and types" \in namingPatterns
  THEN ReplaceDecls(camel, 1, classKeywords, "pascal") ELSE camel

\* modifiedLine, and whether either branch found newLine !== modifiedLine.
NamingOutcome(line, camel, pascal) ==
  [line |-> pascal, changed |-> camel # line \/ pascal # camel]

NamingAfterCamel(line, camel, namingPatterns) ==
  NamingOutcome(line, camel, PascalLine(camel, namingPatterns))

\* One line through applyNamingPatterns' loop body.
NamingLine(line, namingPatterns) ==
  NamingAfterCamel(line, CamelLine(line, namingPatterns), namingPatterns)

\* The lines joined again, and the 1-based numbers of the changed lines.
NamingResult(out) ==
  [content |-> JoinLines([i \in 1..Len(out) |-> out[i].line]),
   changes |-> SelectSeq([i \in 1..Len(out) |-> i], LAMBDA i : out[i].changed)]

NamingLines(lines, namingPatterns) ==
  [i \in 1..Len(lines) |-> NamingLine(lines[i], namingPatterns)]

applyNamingPatterns(content, namingPatterns) ==
  NamingResult(NamingLines(SplitLines(content), namingPatterns))

\* A match of /import\s+(?:\{([^}]+)\}|(\w+))\s+from/ that starts at position
\* i: [ok, braces, from, to], the imported text being line[from..to].
ImportAt(line, i) ==
  LET j     == i + Len(KW_IMPORT) + SpaceRun(line, i + Len(KW_IMPORT))
      close == {c \in (j + 1)..Len(line) : line[c] = "}"}
      c     == IF close = {} THEN 0 ELSE CHOOSE x \in close : \A y \in close : x <= y
      w     == WordRun(line, j)
      head  == MatchAt(line, i, KW_IMPORT) /\ SpaceRun(line, i + Len(KW_IMPORT)) >= 1
      brace == /\ head /\ j <= Len(line) /\ line[j] = "{"
               /\ c >= j + 2
               /\ SpaceRun(line, c + 1) >= 1
               /\ MatchAt(line, c + 1 + SpaceRun(line, c + 1), KW_FROM)
      word  == /\ head /\ w >= 1
               /\ SpaceRun(line, j + w) >= 1
               /\ MatchAt(line, j + w + SpaceRun(line, j + w), KW_FROM)
  IN IF brace THEN [ok |-> TRUE, braces |-> TRUE, from |-> j + 1, to |-> c - 1]
     ELSE IF word THEN [ok |-> TRUE, braces |-> FALSE, from |-> j, to |-> j + w - 1]
     ELSE [ok |-> FALSE, braces |-> FALSE, from |-> 0, to |-> 0]

\* line.match(/import\s+(?:\{([^}]+)\}|(\w+))\s+from/): whether it matches.
importMatch(line) == \E i \in 1..Len(line) : ImportAt(line, i).ok

\* The names the leftmost match imports: the pieces of the brace list, each
\* trimmed, or the one default name.
importedItems(line) ==
  LET hits == {i \in 1..Len(line) : ImportAt(line, i).ok}
      m    == ImportAt(line, CHOOSE h \in hits : \A g \in hits : h <= g)
      txt  == SubSeq(line, m.from, m.to)
  IN IF m.braces
     THEN LET pieces == SplitOn(txt, ",") IN [k \in 1..Len(pieces) |-> Trim(pieces[k])]
     ELSE <<txt>>

\* The imported names some line that does not start with "import" holds.
usedIdentifiers(lines) ==
  {item \in UNION {Range(importedItems(lines[g])) : g \in {h \in 1..Len(lines) : importMatch(lines[h])}} :
     \E n \in 1..Len(lines) : Includes(lines[n], item) /\ ~StartsWith(lines[n], KW_IMPORT)}

\* The import lines some imported name of which is not in used.
ImportLinesWithUnusedName(lines, used) ==
  {i \in 1..Len(lines) :
     /\ importMatch(lines[i])
     /\ ~(Range(importedItems(lines[i])) \subseteq used)}

\* The import lines none of whose imported names is in used.
UnusedImportLines(lines, used) ==
  {i \in 1..Len(lines) :
     /\ importMatch(lines[i])
     /\ Range(importedItems(lines[i])) \cap used = {}}

\* lines.filter((_, index) => !linesToRemove.includes(index + 1)), joined,
\* with the numbers of the lines left out.
WithoutLines(lines, removed) ==
  LET kept == SelectSeq([i \in 1..Len(lines) |-> i], LAMBDA i : i \notin removed)
  IN [content      |-> JoinLines([k \in 1..Len(kept) |-> lines[kept[k]]]),
      removedLines |-> SelectSeq([i \in 1..Len(lines) |-> i], LAMBDA i : i \in removed)]

\* removeUnusedImports on the file's lines.
RemoveUnusedFrom(lines) ==
  WithoutLines(lines, UnusedImportLines(lines, usedIdentifiers(lines)))

removeUnusedImports(content) == RemoveUnusedFrom(SplitLines(content))


\* A match of /let\s+(\w+)\s*=\s*/ that starts at position i: [ok, name,
\* next], next being the position after the spaces that follow the "=".
LetAssignAt(line, i) ==
  LET j  == i + Len(KW_LET) + SpaceRun(line, i + Len(KW_LET))
      w  == WordRun(line, j)
      k  == j + w + SpaceRun(line, j + w)
      ok == /\ MatchAt(line, i, KW_LET)
            /\ SpaceRun(line, i + Len(KW_LET)) >= 1
            /\ w >= 1
            /\ k <= Len(line) /\ line[k] = "="
  IN [ok   |-> ok,
      name |-> IF ok THEN SubSeq(line, j, j + w - 1) ELSE <<>>,
      next |-> IF ok THEN k + 1 + SpaceRun(line, k + 1) ELSE 0]

\* RunLen of \d from position i.
RECURSIVE DigitRun(_, _)
DigitRun(s, i) ==
  IF i >= 1 /\ i <= Len(s) /\ IsDigit(s[i]) THEN 1 + DigitRun(s, i + 1) ELSE 0

\* line.replace(/let\s+(\w+)\s*=\s*"/, 'let $1: string = "')
AnnotateString(line) ==
  LET hits == {i \in 1..Len(line) :
                 LET m == LetAssignAt(line, i)
                 IN m.ok /\ m.next <= Len(line) /\ line[m.next] = "\""}
  IN IF hits = {} THEN line
     ELSE LET i == CHOOSE h \in hits : \A g \in hits : h <= g
              m == LetAssignAt(line, i)
          IN SubSeq(line, 1, i - 1) \o KW_LET_SP \o m.name \o STR_COLON_STRING
             \o From(line, m.next + 1)

\* line.replace(/let\s+(\w+)\s*=\s*\d+/, 'let $1: number = ')
AnnotateNumber(line) ==
  LET hits == {i \in 1..Len(line) :
                 LET m == LetAssignAt(line, i)
                 IN m.ok /\ DigitRun(line, m.next) >= 1}
  IN IF hits = {} THEN line
     ELSE LET i == CHOOSE h \in hits : \A g \in hits : h <= g
              m == LetAssignAt(line, i)
          IN SubSeq(line, 1, i - 1) \o KW_LET_SP \o m.name \o STR_COLON_NUMBER
             \o From(line, m.next + DigitRun(line, m.next))

\* line.replace(/\blet\b/, "const")
LetToConst(line) ==
  LET hits == {i \in 1..Len(line) :
                 /\ MatchAt(line, i, KW_LET)
                 /\ WordBoundary(line, i)
                 /\ WordBoundary(line, i + Len(KW_LET))}
  IN IF hits = {} THEN line
     ELSE LET i == CHOOSE h \in hits : \A g \in hits : h <= g
          IN SubSeq(line, 1, i - 1) \o KW_CONST \o From(line, i + Len(KW_LET))

\* A match of /function\s*\(([^)]*)\)\s*\{/ that starts at position i:
\* [ok, from, to, end], the parameters being line[from..to] and end the
\* position of the "{".
ArrowAt(line, i) ==
  LET j     == i + Len(KW_FUNCTION) + SpaceRun(line, i + Len(KW_FUNCTION))
      close == {c \in (j + 1)..Len(line) : line[c] = ")"}
      c     == IF close = {} THEN 0 ELSE CHOOSE x \in close : \A y \in close : x <= y
      e     == c + 1 + SpaceRun(line, c + 1)
      ok    == /\ MatchAt(line, i, KW_FUNCTION)
               /\ j <= Len(line) /\ line[j] = "("
               /\ c > j
               /\ e <= Len(line) /\ line[e] = "{"
  IN [ok |-> ok, from |-> j + 1, to |-> c - 1, end |-> e]

\* line.replace(/function\s*\(([^)]*)\)\s*\{/, "($1) => {")
ToArrow(line) ==
  LET hits == {i \in 1..Len(line) : ArrowAt(line, i).ok}
  IN IF hits = {} THEN line
     ELSE LET i == CHOOSE h \in hits : \A g \in hits : h <= g
              m == ArrowAt(line, i)
          IN SubSeq(line, 1, i - 1) \o <<"(">> \o SubSeq(line, m.from, m.to) \o STR_ARROW
             \o From(line, m.end + 1)

\* declarationLine.match(/let\s+(\w+)/): group 1 of the leftmost match, or the
\* empty text.
LetName(line) ==
  LET hits == {i \in 1..Len(line) :
                 /\ MatchAt(line, i, KW_LET)
                 /\ SpaceRun(line, i + Len(KW_LET)) >= 1
                 /\ WordRun(line, i + Len(KW_LET) + SpaceRun(line, i + Len(KW_LET))) >= 1}
  IN IF hits = {} THEN <<>>
     ELSE LET i == CHOOSE h \in hits : \A g \in hits : h <= g
              j == i + Len(KW_LET) + SpaceRun(line, i + Len(KW_LET))
          IN SubSeq(line, j, j + WordRun(line, j) - 1)

isVariableReassigned(lines, declarationIndex) ==
  LET variableName == LetName(lines[declarationIndex])
  IN /\ variableName # <<>>
     /\ \E i \in (declarationIndex + 1)..Len(lines) :
          \/ Includes(lines[i], variableName \o STR_ASSIGN)
          \/ Includes(lines[i], variableName \o STR_PLUS_EQ)
          \/ Includes(lines[i], variableName \o STR_MINUS_EQ)
          \/ Includes(lines[i], variableName \o STR_PLUS_PLUS)
          \/ Includes(lines[i], variableName \o STR_MINUS_MINUS)

\* One coding style applied to the line in hand; lines are the file's lines
\* as read, which is what the lines after index i still are when line i is
\* formatted.
ApplyStyle(style, line, lines, i) ==
  IF style = "Use explicit types"
  THEN IF Includes(line, KW_LET) /\ ~Includes(line, <<":">>) /\ Includes(line, <<"=">>)
       THEN AnnotateNumber(AnnotateString(line))
       ELSE line
  ELSE IF style = "Prefer const over let"
  THEN IF Includes(line, KW_LET_SP) /\ ~isVariableReassigned(lines, i)
       THEN LetToConst(line)
       ELSE line
  ELSE IF style = "Use arrow functions for callbacks"
  THEN IF Includes(line, STR_FUNCTION_P) \/ Includes(line, STR_FUNCTION_SP_P)
       THEN ToArrow(line)
       ELSE line
  ELSE line

RECURSIVE ApplyStyles(_, _, _, _)
ApplyStyles(codingStyles, line, lines, i) ==
  IF codingStyles = <<>> THEN line
  ELSE ApplyStyles(Tail(codingStyles), ApplyStyle(Head(codingStyles), line, lines, i), lines, i)

\* The formatted lines joined, and the numbers of the lines that differ
\* from what was read.
FormatResult(lines, out) ==
  [content      |-> JoinLines(out),
   changedLines |-> SelectSeq([i \in 1..Len(lines) |-> i], LAMBDA i : out[i] # lines[i])]

FormatLines(lines, codingStyles) ==
  FormatResult(lines, [i \in 1..Len(lines) |-> ApplyStyles(codingStyles, lines[i], lines, i)])

formatCode(content, codingStyles) == FormatLines(SplitLines(content), codingStyles)

\* a < b in the order Array.prototype.sort uses by default: by code units,
\* a proper prefix first.
RECURSIVE StrLess(_, _)
StrLess(a, b) ==
  IF b = <<>> THEN FALSE
  ELSE IF a = <<>> THEN TRUE
  ELSE IF Head(a) = Head(b) THEN StrLess(Tail(a), Tail(b))
  ELSE CodeUnit(Head(a)) < CodeUnit(Head(b))

\* x put into the sorted sequence s after every element not greater than it.
RECURSIVE InsertSorted(_, _)
InsertSorted(s, x) ==
  IF s = <<>> THEN <<x>>
  ELSE IF StrLess(x, Head(s)) THEN <<x>> \o s
  ELSE <<Head(s)>> \o InsertSorted(Tail(s), x)

\* arr.sort(): stable, ascending.
RECURSIVE SortStrings(_)
SortStrings(arr) ==
  IF arr = <<>> THEN <<>>
  ELSE InsertSorted(SortStrings(SubSeq(arr, 1, Len(arr) - 1)), arr[Len(arr)])

\* organizeImports' loop from the given lines on: [imports, otherLines].
RECURSIVE PartitionImports(_, _)
\* The partition that keeps every blank line.
PartitionKeepingBlanks(lines, inImportSection) ==
  [imports    |-> SelectSeq(lines, LAMBDA line : StartsWith(Trim(line), KW_IMPORT_SP)),
   otherLines |-> SelectSeq(lines, LAMBDA line : ~StartsWith(Trim(line), KW_IMPORT_SP))]

PartitionImports(lines, inImportSection) ==
  IF lines = <<>> THEN [imports |-> <<>>, otherLines |-> <<>>]
  ELSE LET line == Head(lines)
       IN IF StartsWith(Trim(line), KW_IMPORT_SP)
          THEN LET r == PartitionImports(Tail(lines), inImportSection)
               IN [r EXCEPT !.imports = <<line>> \o @]
          ELSE IF Trim(line) = <<>> /\ inImportSection
          THEN PartitionImports(Tail(lines), inImportSection)
          ELSE LET r == PartitionImports(Tail(lines), FALSE)
               IN [r EXCEPT !.otherLines = <<line>> \o @]

\* imports.sort() sorts the array in place and returns it: imports and
\* sortedImports are one array, so the two joined strings are always equal.
organizeImports(content) ==
  LET parts         == PartitionImports(SplitLines(content), TRUE)
      sortedImports == SortStrings(parts.imports)
      imports       == sortedImports
      originalImportsString == JoinLines(imports)
      sortedImportsString   == JoinLines(sortedImports)
  IN [content |-> JoinLines(sortedImports \o <<<<>>>> \o parts.otherLines),
      changed |-> originalImportsString # sortedImportsString]

\* line.trim() is truthy
NonBlank(line) == Trim(line) # <<>>

\* content.split("\n").filter(line => line.trim()).length
NonBlankCount(content) ==
  LET lines == SplitLines(content)
  IN Cardinality({i \in 1..Len(lines) : NonBlank(lines[i])})

\* lineDifference > originalLines.length * 0.1, in integers: the product of
\* an integer n and the double 0.1 is n/10 or just above it, never below.
verifyLogicPreservation(originalContent, modifiedContent, filePath) ==
  LET originalLines  == NonBlankCount(originalContent)
      modifiedLines  == NonBlankCount(modifiedContent)
      lineDifference == Abs(originalLines - modifiedLines)
      ext            == ExtName(filePath)
  IN IF lineDifference * 10 > originalLines THEN FALSE
     ELSE IF (ext = EXT_JS \/ ext = EXT_TS)
             /\ CountChar(modifiedContent, "{") # CountChar(modifiedContent, "}")
     THEN FALSE
     ELSE TRUE

getDefaultRules ==
  <<"consistent-naming", "remove-unused-imports", "organize-imports", "format-code">>

\* applyRule: the content after the rule and the changes it reports.  A name
\* with no case leaves both as they were.
\* case "consistent-naming": a rename change when some line changed.
NamingCase(filePath, namingResult) ==
  [modifiedContent |-> namingResult.content,
   changes |-> IF Len(namingResult.changes) > 0
               THEN <<[file |-> filePath, type |-> "rename",
                       description |-> "Applied consistent naming patterns",
                       lineNumbers |-> namingResult.changes]>>
               ELSE <<>>]

\* case "remove-unused-imports": an import change when a line was removed.
ImportCase(filePath, importResult) ==
  [modifiedContent |-> importResult.content,
   changes |-> IF Len(importResult.removedLines) > 0
               THEN <<[file |-> filePath, type |-> "import",
                       description |-> "Removed unused imports",
                       lineNumbers |-> importResult.removedLines]>>
               ELSE <<>>]

\* case "format-code": a format change when some line changed.
FormatCase(filePath, formatResult) ==
  [modifiedContent |-> formatResult.content,
   changes |-> IF Len(formatResult.changedLines) > 0
               THEN <<[file |-> filePath, type |-> "format",
                       description |-> "Applied code formatting",
                       lineNumbers |-> formatResult.changedLines]>>
               ELSE <<>>]

\* case "organize-imports": an import change when organizeImports says so.
OrganizeCase(filePath, organizeResult) ==
  [modifiedContent |-> organizeResult.content,
   changes |-> IF organizeResult.changed
               THEN <<[file |-> filePath, type |-> "import",
                       description |-> "Organized imports",
                       lineNumbers |-> <<1>>]>>
               ELSE <<>>]

applyRule(rule, filePath, content, patterns) ==
  IF rule = "consistent-naming"
  THEN NamingCase(filePath, applyNamingPatterns(content, patterns.namingPatterns))
  ELSE IF rule = "remove-unused-imports"
  THEN ImportCase(filePath, removeUnusedImports(content))
  ELSE IF rule = "format-code"
  THEN FormatCase(filePath, formatCode(content, patterns.codingStyles))
  ELSE IF rule = "organize-imports"
  THEN OrganizeCase(filePath, organizeImports(content))
  ELSE [modifiedContent |-> content, changes |-> <<>>]


---------------------------------------------------------------------------
(* RefactoringEngine: the filesystem                                       *)

\* A directory listing is a sequence of entries in readdir order; an entry
\* is [name, isDirectory, entries], entries being the listing of a
\* directory.  The files' contents are kept apart, by full path.
File(name) == [name |-> name, isDirectory |-> FALSE, entries |-> <<>>]
Dir(name, entries) == [name |-> name, isDirectory |-> TRUE, entries |-> entries]

EmptyMap == [x \in {} |-> <<>>]

\* scanDirectory over the listing of dir: the code files, depth first, in
\* listing order; node_modules and .git are not entered.
RECURSIVE scanDirectory(_, _)
scanDirectory(dir, entries) ==
  IF entries = <<>> THEN <<>>
  ELSE LET entry    == Head(entries)
           fullPath == PathJoin(dir, entry.name)
       IN (IF /\ entry.isDirectory
              /\ entry.name # STR_NODE_MODULES
              /\ entry.name # STR_DOT_GIT
           THEN scanDirectory(fullPath, entry.entries)
           ELSE IF ~entry.isDirectory /\ ExtName(entry.name) \in Range(codeExtensions)
           THEN <<fullPath>>
           ELSE <<>>)
          \o scanDirectory(dir, Tail(entries))

getCodeFiles(directoryPath, entries) == scanDirectory(directoryPath, entries)

\* copyDirectory(source, destination): the copies made, destination path ->
\* content, every file of every depth.
RECURSIVE copyDirectory(_, _, _, _)
copyDirectory(source, destination, entries, content) ==
  IF entries = <<>> THEN EmptyMap
  ELSE LET entry    == Head(entries)
           srcPath  == PathJoin(source, entry.name)
           destPath == PathJoin(destination, entry.name)
       IN (IF entry.isDirectory
           THEN copyDirectory(srcPath, destPath, entry.entries, content)
           ELSE (destPath :> content[srcPath]))
          @@ copyDirectory(source, destination, Tail(entries), content)

\* new Date().toISOString(), and .replace(/[:.]/g, "-") of it.
NowISO == ISO_NOW
Timestamp == [i \in 1..Len(NowISO) |-> IF NowISO[i] \in {":", "."} THEN "-" ELSE NowISO[i]]

BackupPathOf(targetPath) == targetPath \o STR_BACKUP \o Timestamp

\* The files under a listing, by full path.
RECURSIVE FilesUnder(_, _)
FilesUnder(dir, entries) ==
  IF entries = <<>> THEN {}
  ELSE LET entry == Head(entries)
       IN (IF entry.isDirectory
           THEN FilesUnder(PathJoin(dir, entry.name), entry.entries)
           ELSE {PathJoin(dir, entry.name)})
          \cup FilesUnder(dir, Tail(entries))


---------------------------------------------------------------------------
(* RefactoringEngine: the inputs of the model                              *)

\* The most entries the target directory lists.
MaxEntries == 2

ROOT == <<"p">>
MISSING == <<"q">>
NAME_A_TS == <<"a",".","t","s">>
NAME_B_JSX == <<"b",".","j","s","x">>
NAME_SUB == <<"s","u","b">>
NAME_S_TS == <<"s",".","t","s">>
NAME_N_MD == <<"n",".","m","d">>
NAME_M_JS == <<"m",".","j","s">>

\* File contents: one no rule but organize-imports changes; one whose unused
\* import goes (half of its lines); one renamed with an open brace left
\* unmatched; one renamed and nothing else; one importing two names of which
\* the line after uses the first.
TEXT_PLAIN == <<"f","o","o","(",")",";">>
TEXT_IMPORT == <<"i","m","p","o","r","t"," ","x"," ","f","r","o","m"," ","'","y","'",";","\n","l","e","t"," ","a"," ","="," ","1",";">>
TEXT_BRACE == <<"f","u","n","c","t","i","o","n"," ","m","y","_","f","n","(",")"," ","{">>
TEXT_SNAKE == <<"c","o","n","s","t"," ","m","y","_","v","a","r"," ","="," ","1",";">>

TEXT_IMPORT_TWO == <<"i","m","p","o","r","t"," ","{"," ","a",","," ","b"," ","}"," ","f","r","o","m"," ","'","m","'",";","\n","c","o","n","s","o","l","e",".","l","o","g","(","a",")",";">>

ContentPool == {TEXT_PLAIN, TEXT_IMPORT, TEXT_BRACE, TEXT_SNAKE, TEXT_IMPORT_TWO}

\* The entries a listing of the target directory is made of: two code files
\* and two directories, one of them node_modules.
EntryPool ==
  {File(NAME_A_TS), File(NAME_B_JSX),
   Dir(NAME_SUB, <<File(NAME_N_MD), File(NAME_S_TS)>>),
   Dir(STR_NODE_MODULES, <<File(NAME_M_JS)>>)}

\* The listings: up to MaxEntries entries of distinct names, in any order.
Listings ==
  {l \in UNION {[1..n -> EntryPool] : n \in 1..MaxEntries} :
     \A i, j \in 1..Len(l) : i # j => l[i].name # l[j].name}

\* The disks: a listing of the directory ROOT and a content for each of its
\* files; those of the subdirectories hold TEXT_SNAKE.
Disks ==
  UNION {
    {[entries |-> l,
      content |-> [f \in FilesUnder(ROOT, l) |->
                     IF f \in DOMAIN top THEN top[f] ELSE TEXT_SNAKE]] :
       top \in [{PathJoin(ROOT, l[i].name) : i \in {k \in 1..Len(l) : ~l[k].isDirectory}}
                  -> ContentPool]} :
    l \in Listings}

\* The rule lists a caller passes; rulesGiven = FALSE is a call without one.
RuleChoices ==
  {[rulesGiven |-> FALSE, rules |-> <<>>],
   [rulesGiven |-> TRUE,  rules |-> <<>>],
   [rulesGiven |-> TRUE,  rules |-> <<"remove-unused-imports">>],
   [rulesGiven |-> TRUE,  rules |-> <<"consistent-naming", "format-code">>],
   [rulesGiven |-> TRUE,  rules |-> <<"organize-imports", "no-such-rule", "consistent-naming">>]}

Options ==
  {[rulesGiven |-> c.rulesGiven, rules |-> c.rules, preserveLogic |-> pl, createBackup |-> cb] :
     c \in RuleChoices, pl \in BOOLEAN, cb \in BOOLEAN}

\* The targets of a call on a disk: the directory, its first entry when that
\* is a file, or a path that does not exist.
Targets(d) ==
  {ROOT, MISSING}
  \cup (IF ~d.entries[1].isDirectory THEN {PathJoin(ROOT, d.entries[1].name)} ELSE {})


---------------------------------------------------------------------------
(* RefactoringEngine.refactorCode, one step per awaited operation          *)

NoOptions == [rulesGiven |-> FALSE, rules |-> <<>>, preserveLogic |-> FALSE, createBackup |-> FALSE]

\* The frame of refactorCode (targetPath .. backupPath), that of the
\* refactorFile it awaits (filePath .. rule), and how the call ended.
CallIdle ==
  [pc              |-> "idle",
   targetPath      |-> <<>>,
   options         |-> NoOptions,
   backupPath      |-> Undefined,
   filesToProcess  |-> <<>>,
   file            |-> 0,
   changes         |-> <<>>,
   processedFiles  |-> <<>>,
   filePath        |-> <<>>,
   content         |-> <<>>,
   modifiedContent |-> <<>>,
   hasChanges      |-> FALSE,
   fileChanges     |-> <<>>,
   rule            |-> 0,
   result          |-> [files |-> <<>>, changes |-> <<>>, backupPath |-> Undefined],
   error           |-> Undefined]

HistIdle ==
  [disk0    |-> EmptyMap,   \* the contents when the call began
   reads    |-> <<>>,       \* the paths read, in order
   writes   |-> <<>>,       \* the writes made: [path, content, rule, accepted]
   steps    |-> <<>>,       \* the rules applied: [filePath, rule, input, output, changes]
   rejected |-> <<>>]       \* the paths the guard rejected


\* options.rules || this.getDefaultRules()
rulesToApply(options) == IF options.rulesGiven THEN options.rules ELSE getDefaultRules

\* fs.stat(targetPath): what is at the path.
Exists(d, path) == path = ROOT \/ path \in DOMAIN d.content
IsDirectory(d, path) == path = ROOT

\* The message of the error fs.stat rejects with for a path
\* that does not exist, as its parts.
NoSuchFile(path) == <<"ENOENT: no such file or directory, stat '", path, "'">>

\* The message of the error refactorFile throws on a rejection, as its parts.
LogicVerificationFailed(filePath) ==
  <<"Logic verification failed for ", filePath, ". Refactoring aborted.">>

\* The catch of refactorCode: whatever was thrown is thrown again, its
\* message behind "Refactoring failed: ".
Throw(c, message) ==
  [c EXCEPT !.pc = "threw", !.error = <<"Refactoring failed: ">> \o message]

\* FirstStep with the backup left out.
FirstStepNoBackup(options) == "stat"

\* The step after the call is taken up: the backup when one is asked for.
FirstStep(options) == IF options.createBackup THEN "createBackup" ELSE "stat"

RefactorCode(targetPath, options) ==
  /\ call.pc = "idle"
  /\ call' = [CallIdle EXCEPT !.pc = FirstStep(options),
                              !.targetPath = targetPath,
                              !.options = options]
  /\ hist' = [HistIdle EXCEPT !.disk0 = disk.content]
  /\ UNCHANGED <<disk, backups, ana, fn, parked>>

\* createBackup(targetPath): the copies a backup of the target is made of.
createBackup(d, targetPath) ==
  IF IsDirectory(d, targetPath)
  THEN copyDirectory(targetPath, BackupPathOf(targetPath), d.entries, d.content)
  ELSE (BackupPathOf(targetPath) :> d.content[targetPath])

CreateBackupStep ==
  /\ call.pc = "createBackup"
  /\ IF Exists(disk, call.targetPath)
     THEN /\ backups' = createBackup(disk, call.targetPath) @@ backups
          /\ call' = [call EXCEPT !.pc = "stat",
                                  !.backupPath = BackupPathOf(call.targetPath)]
     ELSE /\ call' = Throw(call, NoSuchFile(call.targetPath))
          /\ UNCHANGED backups
  /\ UNCHANGED <<disk, hist, ana, fn, parked>>

StatStep ==
  /\ call.pc = "stat"
  /\ call' = IF ~Exists(disk, call.targetPath) THEN Throw(call, NoSuchFile(call.targetPath))
             ELSE [call EXCEPT
                     !.pc = "loop",
                     !.file = 1,
                     !.filesToProcess =
                        IF IsDirectory(disk, call.targetPath)
                        THEN getCodeFiles(call.targetPath, disk.entries)
                        ELSE <<call.targetPath>>]
  /\ UNCHANGED <<disk, backups, hist, ana, fn, parked>>

\* refactorFile, to its first await: the file is read.
ReadFileStep ==
  /\ call.pc = "loop"
  /\ call.file <= Len(call.filesToProcess)
  /\ LET filePath == call.filesToProcess[call.file]
     IN /\ call' = [call EXCEPT !.pc = "rules",
                                !.filePath = filePath,
                                !.content = disk.content[filePath],
                                !.modifiedContent = disk.content[filePath],
                                !.hasChanges = FALSE,
                                !.fileChanges = <<>>,
                                !.rule = 1]
        /\ hist' = [hist EXCEPT !.reads = Append(@, filePath)]
  /\ UNCHANGED <<disk, backups, ana, fn, parked>>

\* RuleInput with every rule given the content as read.
RuleInputAsRead(c) == c.content

\* RuleInput with modifiedContent kept in one place for all invocations: a
\* rule is given the content of the invocation that waits in its rule loop.
RuleInputShared(c) ==
  IF parked.call.pc = "rules" THEN parked.call.modifiedContent ELSE c.modifiedContent

\* The content a rule of the chain is given: that of the rule before it.
RuleInput(c) == c.modifiedContent

\* The rule the loop over rulesToApply is at.
CurrentRule(c) == rulesToApply(c.options)[c.rule]

\* The loop body after applyRule returned: the result is taken up only when
\* its content differs from the content in hand.
TakeIfDiffers(c, ruleChanges, differs) ==
  [c EXCEPT !.rule = @ + 1,
            !.modifiedContent = IF differs THEN ruleChanges.modifiedContent ELSE @,
            !.fileChanges = IF differs THEN @ \o ruleChanges.changes ELSE @,
            !.hasChanges = IF differs THEN TRUE ELSE @]

TakeRuleChanges(c, ruleChanges) ==
  TakeIfDiffers(c, ruleChanges, ruleChanges.modifiedContent # c.modifiedContent)

\* One turn of refactorFile's loop over rulesToApply.
ApplyRuleStep ==
  /\ call.pc = "rules"
  /\ call.rule <= Len(rulesToApply(call.options))
  /\ call' = TakeRuleChanges(call, applyRule(CurrentRule(call), call.filePath,
                                             RuleInput(call), extractPatterns))
  /\ hist' = [hist EXCEPT !.steps = Append(@,
                [filePath |-> call.filePath, rule |-> CurrentRule(call),
                 input |-> RuleInput(call),
                 output |-> call'.modifiedContent,
                 before |-> call.fileChanges,
                 after |-> call'.fileChanges])]
  /\ UNCHANGED <<disk, backups, ana, fn, parked>>

RulesDone == call.pc = "rules" /\ call.rule > Len(rulesToApply(call.options))

\* MayWrite with the guard's answer ignored.
MayWriteUnguarded(c) == c.hasChanges

\* Whether refactorFile may write the content it ends with.
MayWrite(c) ==
  IF c.hasChanges /\ c.options.preserveLogic
  THEN verifyLogicPreservation(c.content, c.modifiedContent, c.filePath)
  ELSE c.hasChanges

\* refactorCode's loop body after refactorFile returned fileChanges.
FileDone(c) ==
  [c EXCEPT !.pc = "loop",
            !.file = @ + 1,
            !.changes = @ \o c.fileChanges,
            !.processedFiles = IF Len(c.fileChanges) > 0 THEN Append(@, c.filePath) ELSE @]

\* fs.writeFile(filePath, modifiedContent), and refactorFile returns.
WriteFileStep ==
  /\ RulesDone
  /\ call.hasChanges
  /\ MayWrite(call)
  /\ disk' = [disk EXCEPT !.content[call.filePath] = call.modifiedContent]
  /\ hist' = [hist EXCEPT !.writes = Append(@,
                [path |-> call.filePath, content |-> call.modifiedContent,
                 rule |-> call.rule])]
  /\ call' = FileDone(call)
  /\ UNCHANGED <<backups, ana, fn, parked>>

\* RejectFileStep with the loop going on to the next file after a rejection.
RejectAndContinue ==
  /\ RulesDone
  /\ call.hasChanges
  /\ ~MayWrite(call)
  /\ call' = [call EXCEPT !.pc = "loop", !.file = @ + 1]
  /\ hist' = [hist EXCEPT !.rejected = Append(@, call.filePath)]
  /\ UNCHANGED <<disk, backups, ana, fn, parked>>

\* The guard's rejection: refactorFile throws, and so does refactorCode.
RejectFileStep ==
  /\ RulesDone
  /\ call.hasChanges
  /\ ~MayWrite(call)
  /\ call' = Throw(call, LogicVerificationFailed(call.filePath))
  /\ hist' = [hist EXCEPT !.rejected = Append(@, call.filePath)]
  /\ UNCHANGED <<disk, backups, ana, fn, parked>>

\* No rule changed the content: refactorFile returns without writing.
KeepFileStep ==
  /\ RulesDone
  /\ ~call.hasChanges
  /\ call' = FileDone(call)
  /\ UNCHANGED <<disk, backups, hist, ana, fn, parked>>

ReturnStep ==
  /\ call.pc = "loop"
  /\ call.file > Len(call.filesToProcess)
  /\ call' = [call EXCEPT !.pc = "returned",
                          !.result = [files |-> call.processedFiles,
                                      changes |-> call.changes,
                                      backupPath |-> call.backupPath]]
  /\ UNCHANGED <<disk, backups, hist, ana, fn, parked>>

---------------------------------------------------------------------------
(* CodeAnalyzer: one invocation of compareFiles or analyzeChanges          *)

\* The texts of at most MaxTextLen characters over "a", "b" and "\n".
MaxTextLen == 3
DiffChars == {"a", "b", "\n"}
SmallTexts == UNION {[1..n -> DiffChars] : n \in 0..MaxTextLen}

CODE_GET_USER == <<"f","u","n","c","t","i","o","n"," ","g","e","t","U","s","e","r","(",")"," ","{","\n","}">>
CODE_GET_USER_DATA == <<"f","u","n","c","t","i","o","n"," ","g","e","t","U","s","e","r","D","a","t","a","(",")"," ","{","\n","}">>
CODE_GET_USER_INFO == <<"f","u","n","c","t","i","o","n"," ","g","e","t","U","s","e","r","I","n","f","o","(",")"," ","{","\n"," "," ","r","e","t","u","r","n"," ","1",";","\n","}">>
CODE_GET_USER_INFO2 == <<"f","u","n","c","t","i","o","n"," ","g","e","t","U","s","e","r","I","n","f","o","2","(",")"," ","{","\n"," "," ","i","f"," ","(","x",")"," ","{","\n"," "," ","}","\n","}">>
CODE_LET_A == <<"l","e","t"," ","a">>
CODE_LET_XYZ == <<"l","e","t"," ","x","y","z">>
CODE_TEN == <<"c","o","n","s","t"," ","a","b","c","d","e","f","g","h","i","j"," ","="," ","1",";","\n","w","h","i","l","e"," ","(","y",")"," ","{">>
CODE_SEVEN == <<"c","o","n","s","t"," ","a","b","c","d","e","f","g"," ","="," ","1",";","\n","f","o","r"," ","(",";",";",")"," ","{","\n","i","m","p","o","r","t"," ","z">>

CODE_CALLED_TWICE == <<"g","e","t","U","s","e","r","I","n","f","o","(",")","\n","g","e","t","U","s","e","r","I","n","f","o","(",")">>
CODE_ELSE_IF == <<"}"," ","e","l","s","e"," ","i","f"," ","(","y",")"," ","{","\n","f","o","r","m","a","t","(",")",";">>
CodeTexts ==
  {CODE_GET_USER, CODE_GET_USER_DATA, CODE_GET_USER_INFO, CODE_GET_USER_INFO2,
   CODE_LET_A, CODE_LET_XYZ, CODE_TEN, CODE_SEVEN, CODE_CALLED_TWICE,
   CODE_ELSE_IF}

Texts == SmallTexts \cup CodeTexts
Depths == {"basic", "detailed", "comprehensive"}
Extensions == {EXT_TS, EXT_MD}
AnalysisOptions == [methodTracking : BOOLEAN, logicAnalysis : BOOLEAN]

NoComparison ==
  [changes |-> <<>>, relationships |-> <<>>, recommendations |-> <<>>,
   metrics |-> [totalChanges |-> 0, significantChanges |-> 0,
                complexityScore |-> ConfZero, maintainabilityImpact |-> "low"]]
NoAnalysis == [methodChanges |-> <<>>, logicChanges |-> <<>>, summary |-> <<>>]

\* No method is being invoked on its own.
FnIdle == [method |-> "none", pc |-> "idle", args |-> <<>>, returned |-> Undefined]

\* The local file's content and the remote (baseline) content the caller
\* hands in, what was asked, the diff computed and the value returned.
AnaIdle ==
  [pc            |-> "idle",
   localPath     |-> <<>>,
   localContent  |-> <<>>,
   remoteContent |-> <<>>,
   fileExtension |-> <<>>,
   depth         |-> "detailed",
   options       |-> [methodTracking |-> FALSE, logicAnalysis |-> FALSE],
   diff          |-> <<>>,
   comparison    |-> NoComparison,
   analysis      |-> NoAnalysis]

\* No second invocation is in flight.
NoneParked ==
  [slot |-> 0, call |-> CallIdle, hist |-> HistIdle, ana |-> AnaIdle, disk0 |-> EmptyMap]

CompareFiles(depth) ==
  /\ ana.pc = "idle"
  /\ ana' = [ana EXCEPT
               !.pc = "compared",
               !.depth = depth,
               !.diff = compareFilesDiff(ana.localContent, ana.remoteContent),
               !.comparison = compareFiles(ana.localContent, ana.remoteContent, depth)]
  /\ UNCHANGED <<disk, backups, call, hist, fn, parked>>

AnalyzeChanges(fileExtension, options) ==
  /\ ana.pc = "idle"
  /\ ana' = [ana EXCEPT
               !.pc = "analyzed",
               !.fileExtension = fileExtension,
               !.options = options,
               !.analysis = analyzeChanges(ana.localContent, fileExtension,
                                           ana.remoteContent, options)]
  /\ UNCHANGED <<disk, backups, call, hist, fn, parked>>

InitAnalyze ==
  /\ parked = NoneParked
  /\ disk = [entries |-> <<>>, content |-> EmptyMap]
  /\ backups = EmptyMap
  /\ call = CallIdle
  /\ hist = HistIdle
  /\ fn = FnIdle
  /\ \E localContent \in Texts, remoteContent \in Texts :
       ana = [AnaIdle EXCEPT !.localContent = localContent,
                             !.remoteContent = remoteContent]

NextAnalyze ==
  \/ \E depth \in Depths : CompareFiles(depth)
  \/ \E fileExtension \in Extensions, options \in AnalysisOptions :
       AnalyzeChanges(fileExtension, options)

SpecAnalyze == InitAnalyze /\ [][NextAnalyze]_vars


---------------------------------------------------------------------------
(* The methods that compute a value from their arguments alone, each       *)
(* invoked on its own                                                      *)

\* The method names of at most MaxNameLen characters over "a" and "b"
\* (extractMethods returns names of one character or more).
MaxNameLen == 4
NameChars == {"a", "b"}
Names == UNION {[1..n -> NameChars] : n \in 1..MaxNameLen}

\* The contents of at most MaxOrganizeLines lines, each an import, a line of
\* code or a blank line.
MaxOrganizeLines == 3
LINE_IMPORT_B == <<"i","m","p","o","r","t"," ","b">>
LINE_IMPORT_A == <<"i","m","p","o","r","t"," ","a">>
LINE_IMPORT_INDENTED == <<" ","i","m","p","o","r","t"," ","c">>
LINE_CODE == <<"x">>
LINE_EMPTY == <<>>
LINE_SPACE == <<" ">>
OrganizeLinePool ==
  {LINE_IMPORT_B, LINE_IMPORT_A, LINE_IMPORT_INDENTED, LINE_CODE, LINE_EMPTY, LINE_SPACE}
OrganizeContents ==
  {JoinLines(lines) : lines \in UNION {[1..n -> OrganizeLinePool] : n \in 1..MaxOrganizeLines}}

\* The lines handed to assessSignificance: a keyword or none, behind nothing,
\* an indentation or a comment marker, and a second keyword or none after it.
WORD_X == <<"x">>
LinePrefixes == {<<>>, <<" ", " ">>, STR_LINE_COMMENT \o <<" ">>, STR_BLOCK_COMMENT \o <<" ">>}
LineWords ==
  {KW_EXPORT, KW_IMPORT, KW_CLASS, KW_FUNCTION, KW_INTERFACE, KW_TYPE,
   KW_CONST, KW_LET, KW_VAR, KW_RETURN, KW_THROW, WORD_X, <<>>}
LineSuffixes == {<<>>, <<" ">> \o KW_CONST, <<" ">> \o KW_FUNCTION}
SignificanceLines ==
  {prefix \o word \o suffix :
     prefix \in LinePrefixes, word \in LineWords, suffix \in LineSuffixes}

\* The change lists handed to calculateMetrics: high changes of one type,
\* then at most MaxOther changes of another significance and type.
MaxHigh == 16
MaxOther == 2
LINE_FUNCTION_F == <<"f","u","n","c","t","i","o","n"," ","f">>
LINE_COMMENT_C == <<"/","/"," ","c">>
ChangeOf(type, lineNumber, content) ==
  [type |-> type, lineNumber |-> lineNumber, content |-> content,
   significance |-> assessSignificance(content)]
MakeChanges(high, highType, other, otherContent, otherType) ==
  [k \in 1..(high + other) |->
     IF k <= high THEN ChangeOf(highType, k, LINE_FUNCTION_F)
     ELSE ChangeOf(otherType, k, otherContent)]
ChangeTypes == {"added", "removed"}
ChangeLists ==
  {MakeChanges(high, highType, other, otherContent, otherType) :
     high \in 0..MaxHigh, highType \in ChangeTypes,
     other \in 0..MaxOther, otherContent \in {LINE_CODE, LINE_COMMENT_C},
     otherType \in ChangeTypes}

\* The relationship lists handed to calculateMetrics: at most MaxRenames
\* renames, then at most MaxLogic logic changes.
MaxRenames == 1
MaxLogic == 4
NAME_ABAA == <<"a","b","a","a">>
NAME_ABAB == <<"a","b","a","b">>
MakeRelationships(renames, logic) ==
  [k \in 1..(renames + logic) |->
     IF k <= renames
     THEN RenameRecord(NAME_ABAB,
                       [bestMatch |-> NAME_ABAA,
                        bestConfidence |-> calculateMethodSimilarity(NAME_ABAB, NAME_ABAA)])
     ELSE LogicRecord([old |-> LINE_CODE, new |-> Undefined,
                       description |-> "Removed control flow"])]
RelationshipLists ==
  {MakeRelationships(renames, logic) : renames \in 0..MaxRenames, logic \in 0..MaxLogic}

\* The contents handed to removeUnusedImports: up to MaxImportLines lines,
\* each a default import, the same import indented, a brace-list import, a
\* use of an imported name, or a call whose name begins with "import".
MaxImportLines == 3
LINE_IMPORT_X == <<"i","m","p","o","r","t"," ","x"," ","f","r","o","m"," ","'","y","'",";">>
LINE_IMPORT_X_INDENTED == <<" ","i","m","p","o","r","t"," ","x"," ","f","r","o","m"," ","'","y","'",";">>
LINE_IMPORT_X_Z == <<"i","m","p","o","r","t"," ","{"," ","x",","," ","z"," ","}"," ","f","r","o","m"," ","'","y","'",";">>
LINE_USE_X == <<"x","(",")",";">>
LINE_USE_Z == <<"z",";">>
LINE_IMPORTS_CALL == <<"i","m","p","o","r","t","s","(","x",")",";">>
ImportLinePool ==
  {LINE_IMPORT_X, LINE_IMPORT_X_INDENTED, LINE_IMPORT_X_Z, LINE_USE_X, LINE_USE_Z,
   LINE_IMPORTS_CALL}
ImportContents ==
  {JoinLines(lines) : lines \in UNION {[1..n -> ImportLinePool] : n \in 1..MaxImportLines}}

\* The contents handed to applyNamingPatterns: up to MaxNamingLines lines,
\* each a declaration in snake case or of a lower-case class, or a use of
\* the declared name.
MaxNamingLines == 2
LINE_CONST_MY_VAR == <<"c","o","n","s","t"," ","m","y","_","v","a","r"," ","="," ","1",";">>
LINE_USE_MY_VAR == <<"u","s","e","(","m","y","_","v","a","r",")",";">>
LINE_FUNCTION_MY_FN == <<"f","u","n","c","t","i","o","n"," ","m","y","_","f","n","(",")"," ","{","}">>
LINE_CLASS_FOO == <<"c","l","a","s","s"," ","f","o","o"," ","{","}">>
LINE_NEW_FOO == <<"n","e","w"," ","f","o","o","(",")",";">>
NamingLinePool ==
  {LINE_CONST_MY_VAR, LINE_USE_MY_VAR, LINE_FUNCTION_MY_FN, LINE_CLASS_FOO, LINE_NEW_FOO}
NamingContents ==
  {JoinLines(lines) : lines \in UNION {[1..n -> NamingLinePool] : n \in 1..MaxNamingLines}}

\* A method of the analyzer or of the engine invoked on its own with args.
Called(method, args) ==
  [method |-> method, pc |-> "called", args |-> args, returned |-> Undefined]

Returns(value) == [fn EXCEPT !.pc = "returned", !.returned = value]

CalculateMethodSimilarity ==
  /\ fn.pc = "called"
  /\ fn.method = "calculateMethodSimilarity"
  /\ fn' = Returns(calculateMethodSimilarity(fn.args[1], fn.args[2]))
  /\ UNCHANGED <<disk, backups, call, hist, ana, parked>>

OrganizeImports ==
  /\ fn.pc = "called"
  /\ fn.method = "organizeImports"
  /\ fn' = Returns(organizeImports(fn.args[1]))
  /\ UNCHANGED <<disk, backups, call, hist, ana, parked>>

RemoveUnusedImports ==
  /\ fn.pc = "called"
  /\ fn.method = "removeUnusedImports"
  /\ fn' = Returns(removeUnusedImports(fn.args[1]))
  /\ UNCHANGED <<disk, backups, call, hist, ana, parked>>

ApplyNamingPatterns ==
  /\ fn.pc = "called"
  /\ fn.method = "applyNamingPatterns"
  /\ fn' = Returns(applyNamingPatterns(fn.args[1], extractPatterns.namingPatterns))
  /\ UNCHANGED <<disk, backups, call, hist, ana, parked>>

AssessSignificance ==
  /\ fn.pc = "called"
  /\ fn.method = "assessSignificance"
  /\ fn' = Returns(assessSignificance(fn.args[1]))
  /\ UNCHANGED <<disk, backups, call, hist, ana, parked>>

\* calculateMetrics and generateRecommendations, as compareFiles calls them
\* one after the other on its changes and relationships.
CalculateMetrics ==
  /\ fn.pc = "called"
  /\ fn.method = "calculateMetrics"
  /\ fn' = Returns(ComparisonOf(fn.args[1], fn.args[2]))
  /\ UNCHANGED <<disk, backups, call, hist, ana, parked>>

InitFunctions ==
  /\ parked = NoneParked
  /\ disk = [entries |-> <<>>, content |-> EmptyMap]
  /\ backups = EmptyMap
  /\ call = CallIdle
  /\ hist = HistIdle
  /\ ana = AnaIdle
  /\ \/ \E method1 \in Names, method2 \in Names :
          fn = Called("calculateMethodSimilarity", <<method1, method2>>)
     \/ \E content \in OrganizeContents : fn = Called("organizeImports", <<content>>)
     \/ \E content \in ImportContents : fn = Called("removeUnusedImports", <<content>>)
     \/ \E content \in NamingContents : fn = Called("applyNamingPatterns", <<content>>)
     \/ \E line \in SignificanceLines : fn = Called("assessSignificance", <<line>>)
     \/ \E changes \in ChangeLists, relationships \in RelationshipLists :
          fn = Called("calculateMetrics", <<changes, relationships>>)

NextFunctions ==
  \/ CalculateMethodSimilarity
  \/ OrganizeImports
  \/ RemoveUnusedImports
  \/ ApplyNamingPatterns
  \/ AssessSignificance
  \/ CalculateMetrics

SpecFunctions == InitFunctions /\ [][NextFunctions]_vars

Init ==
  /\ parked = NoneParked
  /\ disk \in Disks
  /\ backups = EmptyMap
  /\ call = CallIdle
  /\ hist = HistIdle
  /\ ana = AnaIdle
  /\ fn = FnIdle

Next ==
  \/ \E targetPath \in Targets(disk), options \in Options : RefactorCode(targetPath, options)
  \/ CreateBackupStep
  \/ StatStep
  \/ ReadFileStep
  \/ ApplyRuleStep
  \/ WriteFileStep
  \/ RejectFileStep
  \/ KeepFileStep
  \/ ReturnStep

Spec == Init /\ [][Next]_vars

---------------------------------------------------------------------------
(* Two invocations in flight on different files                            *)

\* The two files, one for each invocation, and what they may hold.
ConcurrentPaths == <<PathJoin(ROOT, NAME_A_TS), PathJoin(ROOT, NAME_B_JSX)>>
ConcurrentContents == {TEXT_PLAIN, TEXT_IMPORT, TEXT_BRACE}

\* The options of the refactorings and the baselines of the comparisons.
ConcurrentOptions ==
  {[rulesGiven |-> FALSE, rules |-> <<>>, preserveLogic |-> TRUE, createBackup |-> TRUE],
   [rulesGiven |-> TRUE, rules |-> <<"consistent-naming", "format-code">>,
    preserveLogic |-> TRUE, createBackup |-> FALSE],
   [rulesGiven |-> TRUE, rules |-> <<"organize-imports", "no-such-rule", "consistent-naming">>,
    preserveLogic |-> FALSE, createBackup |-> TRUE]}
Baselines == {TEXT_PLAIN, TEXT_SNAKE}

\* The invocation that runs, and the file it was given.
RunningSlot == 3 - parked.slot
RunningPath == ConcurrentPaths[RunningSlot]

\* An invocation nothing was asked of yet.
AnaWaiting == [AnaIdle EXCEPT !.pc = "waiting"]

\* refactorCode is called on the invocation's file.
StartRefactoring ==
  /\ ana.pc = "waiting"
  /\ \E options \in ConcurrentOptions : RefactorCode(RunningPath, options)

\* compareFiles is called on the invocation's file.
StartComparison(remoteContent) ==
  /\ call.pc = "idle"
  /\ ana.pc = "waiting"
  /\ ana' = [AnaIdle EXCEPT !.pc = "reading",
                            !.localPath = RunningPath,
                            !.remoteContent = remoteContent]
  /\ UNCHANGED <<disk, backups, call, hist, fn, parked>>

\* compareFiles, to its await: the local file is read.
ReadLocalStep ==
  /\ ana.pc = "reading"
  /\ ana' = [ana EXCEPT !.pc = "idle", !.localContent = disk.content[ana.localPath]]
  /\ UNCHANGED <<disk, backups, call, hist, fn, parked>>

\* The running invocation waits at an await and the other one goes on; the
\* locals of each stay its own.
Switch ==
  /\ parked.slot \in {1, 2}
  /\ call' = parked.call
  /\ hist' = parked.hist
  /\ ana' = parked.ana
  /\ parked' = [parked EXCEPT !.slot = RunningSlot,
                              !.call = call, !.hist = hist, !.ana = ana]
  /\ UNCHANGED <<disk, backups, fn>>

InitConcurrent ==
  /\ \E contents \in [1..2 -> ConcurrentContents] :
       disk = [entries |-> <<File(NAME_A_TS), File(NAME_B_JSX)>>,
               content |-> (ConcurrentPaths[1] :> contents[1])
                           @@ (ConcurrentPaths[2] :> contents[2])]
  /\ backups = EmptyMap
  /\ call = CallIdle
  /\ hist = HistIdle
  /\ ana = AnaWaiting
  /\ fn = FnIdle
  /\ parked = [slot |-> 2, call |-> CallIdle, hist |-> HistIdle, ana |-> AnaWaiting,
               disk0 |-> disk.content]

NextConcurrent ==
  \/ StartRefactoring
  \/ CreateBackupStep
  \/ StatStep
  \/ ReadFileStep
  \/ ApplyRuleStep
  \/ WriteFileStep
  \/ RejectFileStep
  \/ KeepFileStep
  \/ ReturnStep
  \/ \E remoteContent \in Baselines : StartComparison(remoteContent)
  \/ ReadLocalStep
  \/ \E depth \in Depths : CompareFiles(depth)
  \/ Switch

SpecConcurrent == InitConcurrent /\ [][NextConcurrent]_vars

---------------------------------------------------------------------------
(* Properties of refactorCode, stated over the record of what the call did *)

\* The message the caller gets when the guard rejected the file at path.
GuardRejection(path) ==
  <<"Refactoring failed: ", "Logic verification failed for ", path, ". Refactoring aborted.">>

\* The rule steps the call made on the file at path, in order.
StepsOf(path) == SelectSeq(hist.steps, LAMBDA st : st.filePath = path)

\* The paths the call wrote.
WrittenPaths == {hist.writes[k].path : k \in 1..Len(hist.writes)}

\* The content the rule chain ended with for the file at path.
FinalContent(path) ==
  IF StepsOf(path) = <<>> THEN hist.disk0[path]
  ELSE StepsOf(path)[Len(StepsOf(path))].output

\* C1: a file is written at most once, only after every selected rule has
\* run on it, with the content the chain ended with, and under preserveLogic
\* only when the guard accepted that content; a file the guard rejected
\* still has the content it had before the call and the call has thrown;
\* the disk never holds anything but the content before the call or the
\* final content of a chain.
C1_SingleGuardedWrite ==
  /\ \A a, b \in 1..Len(hist.writes) :
       hist.writes[a].path = hist.writes[b].path => a = b
  /\ \A k \in 1..Len(hist.writes) :
       LET w == hist.writes[k]
       IN /\ Len(StepsOf(w.path)) = Len(rulesToApply(call.options))
          /\ w.content = FinalContent(w.path)
          /\ call.options.preserveLogic =>
               verifyLogicPreservation(hist.disk0[w.path], w.content, w.path)
  /\ \A k \in 1..Len(hist.rejected) :
       /\ disk.content[hist.rejected[k]] = hist.disk0[hist.rejected[k]]
       /\ call.pc = "threw"
       /\ call.error = GuardRejection(hist.rejected[k])
  /\ call.pc # "idle" =>
       \A path \in DOMAIN disk.content :
         \/ disk.content[path] = hist.disk0[path]
         \/ path \in WrittenPaths /\ disk.content[path] = FinalContent(path)

\* A file written under preserveLogic after two rules changed its content one
\* after the other, the first output differing from what was written.
C1_Witness ==
  \E k \in 1..Len(hist.writes) :
    LET st == StepsOf(hist.writes[k].path)
    IN /\ call.options.preserveLogic
       /\ \E a, b \in 1..Len(st) :
            /\ a < b
            /\ st[a].output # st[a].input
            /\ st[b].output # st[b].input
            /\ st[a].output # hist.writes[k].content
       /\ disk.content[hist.writes[k].path] = hist.writes[k].content

\* C2: when the guard rejects a file of a directory-wide refactor the call
\* fails and no file under the target differs from its content before the
\* call.
C2_AllOrNothing ==
  (call.pc = "threw" /\ hist.rejected # <<>>) =>
    \A path \in DOMAIN disk.content : disk.content[path] = hist.disk0[path]

\* The place in the target's listing of the entry the path lies at or under.
EntryIndex(path) ==
  CHOOSE k \in 1..Len(disk.entries) :
    StartsWith(path, PathJoin(ROOT, disk.entries[k].name))

\* C3: the files are read in the order of the listing, each one only when
\* the one before it is finished; at the first rejection the call throws:
\* the rejected file is the last one read, the files after it are neither
\* read nor written, and no result is returned.
C3_SequentialFailFast ==
  /\ Len(hist.reads) <= Len(call.filesToProcess)
  /\ \A k \in 1..Len(hist.reads) : hist.reads[k] = call.filesToProcess[k]
  /\ IsDirectory(disk, call.targetPath) =>
       \A a, b \in 1..Len(call.filesToProcess) :
         a < b => EntryIndex(call.filesToProcess[a]) <= EntryIndex(call.filesToProcess[b])
  /\ \A k \in 1..(Len(hist.reads) - 1) :
       Len(StepsOf(hist.reads[k])) = Len(rulesToApply(call.options))
  /\ \A k \in 1..Len(hist.steps) : hist.steps[k].filePath \in Range(hist.reads)
  /\ WrittenPaths \subseteq Range(hist.reads)
  /\ hist.rejected # <<>> =>
       /\ call.pc = "threw"
       /\ hist.rejected = <<hist.reads[Len(hist.reads)]>>
       /\ call.result = CallIdle.result
       /\ \A k \in (Len(hist.reads) + 1)..Len(call.filesToProcess) :
            disk.content[call.filesToProcess[k]] = hist.disk0[call.filesToProcess[k]]
  /\ call.pc = "returned" => hist.rejected = <<>> /\ hist.reads = call.filesToProcess

\* The call threw at a rejected file that has a file after it in the listing
\* of a subdirectory, which was never read.
C3_Witness ==
  /\ call.pc = "threw"
  /\ hist.rejected # <<>>
  /\ Len(hist.reads) < Len(call.filesToProcess)
  /\ call.filesToProcess[Len(call.filesToProcess)] = PathJoin(PathJoin(ROOT, NAME_SUB), NAME_S_TS)


\* The extensions the refactoring processes whose languages delimit blocks
\* with braces.
BraceExtensions ==
  {EXT_JS, EXT_TS, EXT_TSX, EXT_JSX, EXT_JAVA, EXT_C, EXT_CPP, EXT_CS, EXT_GO, EXT_RS}

\* The two checks as stated: the non-blank line counts at most 10% of the
\* original's apart, and the braces balanced in a file of a brace language.
BothChecksPass(original, rewritten, path) ==
  /\ 10 * Abs(NonBlankCount(original) - NonBlankCount(rewritten)) <= NonBlankCount(original)
  /\ ExtName(path) \in BraceExtensions =>
       CountChar(rewritten, "{") = CountChar(rewritten, "}")

\* C4: under preserveLogic a changed file is written exactly when both
\* checks pass, the brace check applying to every brace-delimited language
\* among the processed extensions: every write passes both checks and every
\* rejection fails one of them.
C4_AcceptedIffBothChecks ==
  call.options.preserveLogic =>
    /\ \A k \in 1..Len(hist.writes) :
         BothChecksPass(hist.disk0[hist.writes[k].path], hist.writes[k].content,
                        hist.writes[k].path)
    /\ \A k \in 1..Len(hist.rejected) :
         ~BothChecksPass(hist.disk0[hist.rejected[k]], FinalContent(hist.rejected[k]),
                         hist.rejected[k])

\* C5: the files of a returned result are exactly the paths the call wrote.
C5_FilesAreTheWrittenPaths ==
  call.pc = "returned" => Range(call.result.files) = WrittenPaths

\* The snapshot createBackup makes of the target as it was before the call.
SnapshotBeforeCall ==
  createBackup([entries |-> disk.entries, content |-> hist.disk0], call.targetPath)

\* C6: with createBackup set, no file is written before the backup is made,
\* and from then on, whatever the call does and however it ends, the backup
\* holds the content the target had before the call.
C6_BackupBeforeWrites ==
  call.options.createBackup =>
    /\ hist.writes # <<>> => call.backupPath # Undefined
    /\ hist.steps # <<>> => call.backupPath # Undefined
    /\ call.backupPath # Undefined =>
         /\ call.backupPath = BackupPathOf(call.targetPath)
         /\ backups = SnapshotBeforeCall
    /\ call.pc = "returned" => call.result.backupPath = BackupPathOf(call.targetPath)

\* A call with a backup that wrote one file and then threw at a rejection:
\* the backup still holds what the written file held before.
C6_Witness ==
  /\ call.options.createBackup
  /\ call.pc = "threw"
  /\ hist.rejected # <<>>
  /\ \E k \in 1..Len(hist.writes) :
       LET path == hist.writes[k].path
       IN /\ disk.content[path] # hist.disk0[path]
          /\ \E b \in DOMAIN backups : backups[b] = hist.disk0[path]

\* The names applyRule has a case for.
HandledRules ==
  {"consistent-naming", "remove-unused-imports", "format-code", "organize-imports"}

\* C7: the k-th step on a file applies the k-th rule of the caller's list, or
\* of the chain consistent-naming, remove-unused-imports, organize-imports,
\* format-code when no list is given, to the content as read for the first
\* rule and to the output of the step before for the others; a rule with no
\* handler leaves the content and the changes as they are, and the call
\* throws for no reason but a missing target or a guard rejection.
C7_RulesComposeInOrder ==
  /\ ~call.options.rulesGiven =>
       rulesToApply(call.options) =
         <<"consistent-naming", "remove-unused-imports", "organize-imports", "format-code">>
  /\ call.options.rulesGiven => rulesToApply(call.options) = call.options.rules
  /\ \A path \in Range(hist.reads) :
       LET st == StepsOf(path)
       IN /\ Len(st) <= Len(rulesToApply(call.options))
          /\ \A k \in 1..Len(st) :
               /\ st[k].rule = rulesToApply(call.options)[k]
               /\ st[k].input = IF k = 1 THEN hist.disk0[path] ELSE st[k - 1].output
               /\ st[k].output =
                    applyRule(st[k].rule, path, st[k].input, extractPatterns).modifiedContent
               /\ st[k].rule \notin HandledRules =>
                    st[k].output = st[k].input /\ st[k].after = st[k].before
  /\ call.pc = "threw" => (\/ call.error = <<"Refactoring failed: ">> \o NoSuchFile(call.targetPath)
                           \/ call.error = GuardRejection(call.filePath))

\* A chain in which a rule changed the content, a rule with no handler came
\* next, and the rule after it changed the content again.
C7_Witness ==
  \E path \in Range(hist.reads) :
    LET st == StepsOf(path)
    IN \E k \in 2..(Len(st) - 1) :
         /\ st[k].rule \notin HandledRules
         /\ st[k - 1].output # st[k - 1].input
         /\ st[k + 1].output # st[k + 1].input
         /\ call.pc = "returned"


---------------------------------------------------------------------------
(* Properties of compareFiles and analyzeChanges                           *)

\* C8: the values of the blocks of the diff that are not added, joined in
\* order, are the baseline, and the values of the blocks that are not
\* removed, joined in order, are the local text.
C8_DiffRoundTrip ==
  ana.pc = "compared" =>
    /\ ConcatValues(UnchangedAndRemoved(ana.diff)) = ana.remoteContent
    /\ ConcatValues(UnchangedAndAdded(ana.diff)) = ana.localContent

\* A diff of two different texts with a block of each of the three kinds.
C8_Witness ==
  /\ ana.pc = "compared"
  /\ ana.remoteContent # ana.localContent
  /\ \E k \in 1..Len(ana.diff) : ana.diff[k].added
  /\ \E k \in 1..Len(ana.diff) : ana.diff[k].removed
  /\ \E k \in 1..Len(ana.diff) : ~ana.diff[k].added /\ ~ana.diff[k].removed

\* Every relationship record the invocation returned.
EmittedRelationships ==
  ana.comparison.relationships \o ana.analysis.methodChanges \o ana.analysis.logicChanges

\* C9: the confidence of every emitted record lies in [0,1] and is not below
\* 0.7; that of a rename is the similarity of its two names and is above 0.7,
\* so a best similarity of 0.7 or less emits nothing; that of a logic change
\* is 0.9.
C9_ConfidenceNotBelowThreshold ==
  \A k \in 1..Len(EmittedRelationships) :
    LET r == EmittedRelationships[k]
        c == r.confidence
    IN /\ c.den > 0 /\ 0 <= c.num /\ c.num <= c.den
       /\ 10 * c.num >= 7 * c.den
       /\ r.type \in {"method_rename", "logic_change"}
       /\ r.type = "method_rename" =>
            /\ 10 * c.num > 7 * c.den
            /\ ConfEq(c, calculateMethodSimilarity(r.newReference, r.oldReference))
       /\ r.type = "logic_change" => 10 * c.num = 9 * c.den

\* analyzeChanges returned a rename and a logic change.
C9_Witness ==
  /\ ana.pc = "analyzed"
  /\ ana.analysis.methodChanges # <<>>
  /\ ana.analysis.logicChanges # <<>>

NAME_GET_USER == <<"g","e","t","U","s","e","r">>
NAME_GET_USER_DATA == <<"g","e","t","U","s","e","r","D","a","t","a">>
NAME_A == <<"a">>
NAME_XYZ == <<"x","y","z">>

\* Whether the invocation was given the baseline and the local text.
Given(remoteContent, localContent) ==
  ana.remoteContent = remoteContent /\ ana.localContent = localContent

\* Whether a rename was returned.
RenameEmitted ==
  \E k \in 1..Len(EmittedRelationships) : EmittedRelationships[k].type = "method_rename"

\* C10 as stated: the similarity of getUser and getUserData is above 0.7 and
\* a comparison beyond the basic depth of a baseline declaring getUser with
\* a local text declaring getUserData returns a rename; the similarity of a
\* and xyz is below 0.7 and nothing is returned for them.
C10_SimilarityAsStated ==
  /\ (ana.pc = "compared" /\ ana.depth # "basic"
        /\ Given(CODE_GET_USER, CODE_GET_USER_DATA)) =>
       /\ ConfGT(calculateMethodSimilarity(NAME_GET_USER, NAME_GET_USER_DATA), Conf(7, 10))
       /\ RenameEmitted
  /\ (ana.pc = "compared" /\ Given(CODE_LET_A, CODE_LET_XYZ)) =>
       /\ ConfGT(Conf(7, 10), calculateMethodSimilarity(NAME_A, NAME_XYZ))
       /\ EmittedRelationships = <<>>

\* C10 amended: the similarity of getUser and getUserData is 7/11, which is
\* not above 0.7, and a comparison of a baseline declaring getUser with a
\* local text declaring getUserData returns no rename; the similarity of a
\* and xyz is 0 and nothing is returned for them.
C10_SimilarityExamples ==
  /\ (ana.pc # "idle" /\ Given(CODE_GET_USER, CODE_GET_USER_DATA)) =>
       /\ ConfEq(calculateMethodSimilarity(NAME_GET_USER, NAME_GET_USER_DATA), Conf(7, 11))
       /\ ~ConfGT(calculateMethodSimilarity(NAME_GET_USER, NAME_GET_USER_DATA), Conf(7, 10))
       /\ ~RenameEmitted
  /\ (ana.pc # "idle" /\ Given(CODE_LET_A, CODE_LET_XYZ)) =>
       /\ ConfEq(calculateMethodSimilarity(NAME_A, NAME_XYZ), ConfZero)
       /\ EmittedRelationships = <<>>

\* The comparison at the detailed depth of the baseline declaring getUser
\* with the local text declaring getUserData has returned.
C10_Witness ==
  /\ ana.pc = "compared"
  /\ ana.depth = "detailed"
  /\ Given(CODE_GET_USER, CODE_GET_USER_DATA)
  /\ extractMethods(ana.remoteContent) = <<NAME_GET_USER>>
  /\ extractMethods(ana.localContent) = <<NAME_GET_USER_DATA>>

---------------------------------------------------------------------------
(* Properties of the methods invoked on their own                          *)

\* Whether the method invoked on its own has returned.
Returned(method) == fn.method = method /\ fn.pc = "returned"

\* The standard Levenshtein distance, by its recurrence on the two heads.
RECURSIVE EditDistance(_, _)
EditDistance(a, b) ==
  IF a = <<>> THEN Len(b)
  ELSE IF b = <<>> THEN Len(a)
  ELSE IF Head(a) = Head(b) THEN EditDistance(Tail(a), Tail(b))
  ELSE 1 + Min3(EditDistance(Tail(a), b), EditDistance(a, Tail(b)),
                EditDistance(Tail(a), Tail(b)))

\* C11: for all names x and y the similarity returned is
\* 1 - levenshtein(x,y)/max(|x|,|y|) with the standard Levenshtein distance,
\* lies in [0,1], is 1 for x = y and is the same for (y, x).
C11_SimilarityLaws ==
  Returned("calculateMethodSimilarity") =>
    LET x == fn.args[1]
        y == fn.args[2]
        longest == Max2(Len(x), Len(y))
    IN /\ ConfEq(fn.returned, Conf(longest - EditDistance(x, y), longest))
       /\ ConfGE(fn.returned, ConfZero)
       /\ ConfGE(ConfOne, fn.returned)
       /\ x = y => ConfEq(fn.returned, ConfOne)
       /\ ConfEq(fn.returned, calculateMethodSimilarity(y, x))

\* The similarity of two names of different lengths was returned and is
\* strictly between 0 and 1.
C11_Witness ==
  /\ Returned("calculateMethodSimilarity")
  /\ Len(fn.args[1]) < Len(fn.args[2])
  /\ ConfGT(fn.returned, ConfZero)
  /\ ConfGT(ConfOne, fn.returned)

---------------------------------------------------------------------------
(* Properties of the rules, stated over the record of a refactorCode call  *)

TEXT_CONSOLE_LOG == <<"c","o","n","s","o","l","e",".","l","o","g","(","a",")",";">>

\* Whether the call has returned and was given the rule list
\* <<"remove-unused-imports">>.
ReturnedFromRemoveUnusedImports ==
  /\ call.pc = "returned"
  /\ call.options.rulesGiven
  /\ call.options.rules = <<"remove-unused-imports">>

\* The changes the call reports for the file at path.
ChangesOn(path) == SelectSeq(call.result.changes, LAMBDA c : c.file = path)

\* C12 as stated: refactor with the rules <<"remove-unused-imports">> turns
\* "import { a, b } from 'm';\nconsole.log(a);" into "console.log(a);" and
\* reports exactly one change, of type import, for the file.
C12_ImportDroppedAsStated ==
  ReturnedFromRemoveUnusedImports =>
    \A path \in Range(hist.reads) :
      hist.disk0[path] = TEXT_IMPORT_TWO =>
        /\ disk.content[path] = TEXT_CONSOLE_LOG
        /\ Len(ChangesOn(path)) = 1
        /\ ChangesOn(path)[1].type = "import"

\* C12 amended: refactor with the rules <<"remove-unused-imports">> leaves
\* "import { a, b } from 'm';\nconsole.log(a);" as it is and reports no change
\* for the file, because the line after the import uses a.
C12_ImportKept ==
  ReturnedFromRemoveUnusedImports =>
    \A path \in Range(hist.reads) :
      hist.disk0[path] = TEXT_IMPORT_TWO =>
        /\ disk.content[path] = TEXT_IMPORT_TWO
        /\ ChangesOn(path) = <<>>
        /\ path \notin Range(call.result.files)
        /\ path \notin WrittenPaths

\* The call on the one file holding the two-name import, with the rules
\* <<"remove-unused-imports">>, has returned.
C12_Witness ==
  /\ ReturnedFromRemoveUnusedImports
  /\ hist.reads = <<call.targetPath>>
  /\ hist.disk0[call.targetPath] = TEXT_IMPORT_TWO
  /\ Len(hist.steps) = 1
  /\ hist.steps[1].rule = "remove-unused-imports"

---------------------------------------------------------------------------
(* Properties of the metrics and the recommendations                       *)

\* The number of elements of a list a test holds of.
HighIndices(changes) == {k \in 1..Len(changes) : changes[k].significance = "high"}
TypeIndices(changes, type) == {k \in 1..Len(changes) : changes[k].type = type}

\* 0.1 * changes + 0.5 * high + 0.3 * relationships, in tenths.
ScoreTenths(changes, relationships) ==
  Len(changes) + 5 * Cardinality(HighIndices(changes)) + 3 * Len(relationships)

\* C13: significantChanges is between 0 and totalChanges, totalChanges is the
\* number of changes, significantChanges the number of high changes, and
\* complexityScore is min(0.1 * changes + 0.5 * high + 0.3 * relationships, 10),
\* hence within [0, 10].
C13_MetricsFormula ==
  Returned("calculateMetrics") =>
    LET changes       == fn.args[1]
        relationships == fn.args[2]
        metrics       == fn.returned.metrics
        tenths        == ScoreTenths(changes, relationships)
    IN /\ 0 <= metrics.significantChanges
       /\ metrics.significantChanges <= metrics.totalChanges
       /\ metrics.totalChanges = Len(changes)
       /\ metrics.significantChanges = Cardinality(HighIndices(changes))
       /\ ConfEq(metrics.complexityScore, Conf(IF tenths < 100 THEN tenths ELSE 100, 10))
       /\ ConfGE(metrics.complexityScore, ConfZero)
       /\ ConfGE(Conf(10, 1), metrics.complexityScore)

\* The metrics of a list whose weighted sum is above 10 were returned, with
\* the score 10 and fewer high changes than changes.
C13_Witness ==
  /\ Returned("calculateMetrics")
  /\ ScoreTenths(fn.args[1], fn.args[2]) > 100
  /\ ConfEq(fn.returned.metrics.complexityScore, Conf(10, 1))
  /\ 0 < fn.returned.metrics.significantChanges
  /\ fn.returned.metrics.significantChanges < fn.returned.metrics.totalChanges

\* C14: maintainabilityImpact is low exactly when complexityScore < 3 and
\* significantChanges < 5, high exactly when complexityScore >= 7 or
\* significantChanges >= 15, and medium in every other case.
C14_ImpactThresholds ==
  Returned("calculateMetrics") =>
    LET metrics == fn.returned.metrics
        isLow   == /\ ConfGT(Conf(3, 1), metrics.complexityScore)
                   /\ metrics.significantChanges < 5
        isHigh  == \/ ConfGE(metrics.complexityScore, Conf(7, 1))
                   \/ metrics.significantChanges >= 15
    IN /\ metrics.maintainabilityImpact = "low" <=> isLow
       /\ metrics.maintainabilityImpact = "high" <=> isHigh
       /\ metrics.maintainabilityImpact = "medium" <=> (~isLow /\ ~isHigh)

\* The metrics with a score of exactly 3 and fewer than 5 high changes were
\* returned: the impact is medium.
C14_Witness ==
  /\ Returned("calculateMetrics")
  /\ ConfEq(fn.returned.metrics.complexityScore, Conf(3, 1))
  /\ fn.returned.metrics.significantChanges < 5
  /\ fn.returned.metrics.maintainabilityImpact = "medium"

\* The levels of the impact, in order.
ImpactLevel(impact) == CASE impact = "low" -> 1 [] impact = "medium" -> 2 [] impact = "high" -> 3

\* The list with the element put in after its first k elements.
InsertAt(list, k, element) == SubSeq(list, 1, k) \o <<element>> \o SubSeq(list, k + 1, Len(list))

\* The metrics of the list with one more high change of the type, put in
\* after its first k changes.
MetricsWithOneMoreHigh(type, k) ==
  calculateMetrics(InsertAt(fn.args[1], k, ChangeOf(type, k + 1, LINE_FUNCTION_F)), fn.args[2])

\* C15: with one more high change in the list, wherever it is put,
\* complexityScore is not lower and maintainabilityImpact is not at a lower
\* level.
C15_MetricsMonotone ==
  Returned("calculateMetrics") =>
    \A type \in ChangeTypes, k \in 0..Len(fn.args[1]) :
      /\ ConfGE(MetricsWithOneMoreHigh(type, k).complexityScore,
                fn.returned.metrics.complexityScore)
      /\ ImpactLevel(MetricsWithOneMoreHigh(type, k).maintainabilityImpact)
           >= ImpactLevel(fn.returned.metrics.maintainabilityImpact)

\* The metrics of a list were returned whose impact is low and becomes
\* medium, with a higher score, when one high change is added.
C15_Witness ==
  /\ Returned("calculateMetrics")
  /\ fn.returned.metrics.maintainabilityImpact = "low"
  /\ MetricsWithOneMoreHigh("added", 0).maintainabilityImpact = "medium"
  /\ ConfGT(MetricsWithOneMoreHigh("added", 0).complexityScore,
            fn.returned.metrics.complexityScore)

---------------------------------------------------------------------------
(* Properties of the relationships a comparison returns                    *)

\* The positions at which the control-flow lines of the two texts differ, a
\* position only one of the two has included.
ControlFlowDifferences ==
  LET localFlow  == extractControlFlow(ana.localContent)
      remoteFlow == extractControlFlow(ana.remoteContent)
  IN {i \in 1..Max2(Len(localFlow), Len(remoteFlow)) :
        \/ i > Len(localFlow)
        \/ i > Len(remoteFlow)
        \/ localFlow[i] # remoteFlow[i]}

\* The records of a type in a list of relationships.
OfType(relationships, type) == SelectSeq(relationships, LAMBDA r : r.type = type)

\* Whether compareFiles has returned from a call at the detailed or the
\* comprehensive depth.
ComparedInDepth == ana.pc = "compared" /\ ana.depth \in {"detailed", "comprehensive"}

\* C16 as stated: at the detailed and the comprehensive depth the
\* relationships of a comparison hold the renames of the rename detection and
\* one logic change for each position at which the control-flow lines differ.
C16_BothInvokedAsStated ==
  ComparedInDepth =>
    /\ OfType(ana.comparison.relationships, "method_rename")
         = analyzeRelationships(ana.localContent, ana.remoteContent)
    /\ Len(OfType(ana.comparison.relationships, "logic_change"))
         = Cardinality(ControlFlowDifferences)

\* C16 amended: at the detailed and the comprehensive depth the relationships
\* of a comparison are the renames of the rename detection and nothing else;
\* the logic changes, one for each position at which the control-flow lines
\* differ, are returned by analyzeChanges when logicAnalysis is asked for on
\* a code file.
C16_RenamesOnlyInComparison ==
  /\ ComparedInDepth =>
       /\ ana.comparison.relationships
            = analyzeRelationships(ana.localContent, ana.remoteContent)
       /\ OfType(ana.comparison.relationships, "logic_change") = <<>>
  /\ (ana.pc = "analyzed" /\ ana.options.logicAnalysis /\ isCodeFile(ana.fileExtension)) =>
       /\ Len(ana.analysis.logicChanges) = Cardinality(ControlFlowDifferences)
       /\ OfType(ana.analysis.logicChanges, "logic_change") = ana.analysis.logicChanges

\* A comparison at the detailed depth of two texts whose control-flow lines
\* differ has returned a rename and no logic change.
C16_Witness ==
  /\ ComparedInDepth
  /\ ControlFlowDifferences # {}
  /\ OfType(ana.comparison.relationships, "method_rename") # <<>>
  /\ OfType(ana.comparison.relationships, "logic_change") = <<>>

\* C17: a comparison at the basic depth returns no relationships, while its
\* changes, metrics and recommendations are those computed from the diff; the
\* recommendation about renames is not among them.
C17_BasicSkipsRelationships ==
  (ana.pc = "compared" /\ ana.depth = "basic") =>
    LET changes == ChangesFrom(ana.diff, 0)
    IN /\ ana.comparison.relationships = <<>>
       /\ ana.comparison.changes = changes
       /\ ana.comparison.metrics = calculateMetrics(changes, <<>>)
       /\ ana.comparison.recommendations
            = generateRecommendations(changes, <<>>, ana.comparison.metrics)
       /\ "Update documentation and comments to reflect method renames"
            \notin Range(ana.comparison.recommendations)

\* A comparison at the basic depth of two texts the rename detection finds a
\* rename in has returned changes and a recommendation.
C17_Witness ==
  /\ ana.pc = "compared"
  /\ ana.depth = "basic"
  /\ analyzeRelationships(ana.localContent, ana.remoteContent) # <<>>
  /\ ana.comparison.changes # <<>>
  /\ ana.comparison.recommendations # <<>>

---------------------------------------------------------------------------
(* Properties of organizeImports, assessSignificance and the               *)
(* recommendations                                                         *)

\* C18: organize-imports is idempotent: organizing the content it returned
\* returns that content again.
C18_OrganizeIdempotent ==
  Returned("organizeImports") =>
    organizeImports(fn.returned.content).content = fn.returned.content

\* Imports out of order, after a blank line and a line of code, were
\* organized: the content returned differs from the one given.
C18_Witness ==
  /\ Returned("organizeImports")
  /\ fn.args[1] = JoinLines(<<LINE_EMPTY, LINE_CODE, LINE_IMPORT_B>>)
  /\ fn.returned.content = JoinLines(<<LINE_IMPORT_B, LINE_EMPTY, LINE_CODE>>)

\* Whether the text holds one of the words.
HoldsAny(text, words) == \E word \in words : Includes(text, word)

\* C19: a line whose trimmed text holds export, import, class, function,
\* interface or type is high; otherwise one that holds const, let, var, return
\* or throw is medium; otherwise an empty one or one that starts with a
\* comment marker is low; otherwise it is medium.  A line with both function
\* and const is high.
C19_SignificanceCascade ==
  Returned("assessSignificance") =>
    LET text       == Trim(fn.args[1])
        structural == HoldsAny(text, {KW_EXPORT, KW_IMPORT, KW_CLASS, KW_FUNCTION,
                                      KW_INTERFACE, KW_TYPE})
        statement  == HoldsAny(text, {KW_CONST, KW_LET, KW_VAR, KW_RETURN, KW_THROW})
        quiet      == \/ text = <<>>
                      \/ StartsWith(text, STR_LINE_COMMENT)
                      \/ StartsWith(text, STR_BLOCK_COMMENT)
    IN /\ structural => fn.returned = "high"
       /\ (~structural /\ statement) => fn.returned = "medium"
       /\ (~structural /\ ~statement /\ quiet) => fn.returned = "low"
       /\ (~structural /\ ~statement /\ ~quiet) => fn.returned = "medium"
       /\ (Includes(text, KW_FUNCTION) /\ Includes(text, KW_CONST)) => fn.returned = "high"

\* The significance of a line with both const and function was returned.
C19_Witness ==
  /\ Returned("assessSignificance")
  /\ fn.args[1] = KW_CONST \o <<" ">> \o KW_FUNCTION
  /\ fn.returned = "high"

\* The four advisories, in their order.
Advisories ==
  <<"Consider breaking this change into smaller, more focused commits",
    "Update documentation and comments to reflect method renames",
    "Verify that removed functionality is intentional and properly handled",
    "Consider adding unit tests to cover the complex changes">>

\* Whether the trigger of the k-th advisory holds of the call that returned.
Fires(k) ==
  LET changes       == fn.args[1]
      relationships == fn.args[2]
      metrics       == fn.returned.metrics
  IN CASE k = 1 -> metrics.maintainabilityImpact = "high"
       [] k = 2 -> \E i \in 1..Len(relationships) : relationships[i].type = "method_rename"
       [] k = 3 -> Cardinality(TypeIndices(changes, "removed"))
                     > Cardinality(TypeIndices(changes, "added"))
       [] k = 4 -> ConfGT(metrics.complexityScore, Conf(7, 1))

\* The place of a text among the advisories.
AdvisoryIndex(text) == CHOOSE k \in 1..Len(Advisories) : Advisories[k] = text

\* C20: the recommendations are the advisories whose trigger holds, each
\* once, in the order of the advisories: between 0 and 4 of them.
C20_RecommendationsByTrigger ==
  Returned("calculateMetrics") =>
    LET recommendations == fn.returned.recommendations
    IN /\ \A k \in 1..Len(Advisories) :
            Advisories[k] \in Range(recommendations) <=> Fires(k)
       /\ Len(recommendations) = Cardinality({k \in 1..Len(Advisories) : Fires(k)})
       /\ Len(recommendations) <= 4
       /\ \A i, j \in 1..Len(recommendations) :
            i < j => AdvisoryIndex(recommendations[i]) < AdvisoryIndex(recommendations[j])

\* The recommendations of a call all four triggers hold of were returned.
C20_Witness ==
  /\ Returned("calculateMetrics")
  /\ \A k \in 1..Len(Advisories) : Fires(k)
  /\ fn.returned.recommendations = Advisories

\* ---------------------------------------------------------------------------
\* Change records of the rule chain
\* ---------------------------------------------------------------------------

\* The change records one turn of the rule loop added to fileChanges.
RecordedBy(st) == SubSeq(st.after, Len(st.before) + 1, Len(st.after))

\* C22: for each rule applied in a file's rule chain, a change is recorded
\* for that rule if and only if the rule changed the content.
C22_RecordedIffContentChanged ==
  \A k \in 1..Len(hist.steps) :
    LET st == hist.steps[k]
    IN (st.output # st.input) <=> (RecordedBy(st) # <<>>)

\* ---------------------------------------------------------------------------
\* The type annotation of format-code
\* ---------------------------------------------------------------------------

ANNOTATION_STRING == <<":", " ", "s", "t", "r", "i", "n", "g">>
ANNOTATION_NUMBER == <<":", " ", "n", "u", "m", "b", "e", "r">>

\* out is line with one of the two annotations put in somewhere and no other
\* character touched.
OnlyAnnotated(line, out) ==
  \E p \in 0..Len(line), annotation \in {ANNOTATION_STRING, ANNOTATION_NUMBER} :
    out = SubSeq(line, 1, p) \o annotation \o From(line, p + 1)

\* The lines format-code was given in the calls made so far.
FormattedLines ==
  UNION {Range(SplitLines(hist.steps[k].input)) :
           k \in {j \in 1..Len(hist.steps) : hist.steps[j].rule = "format-code"}}

\* C23: the type-annotation substitution of format-code only inserts
\* ": string" or ": number"; every other character of the line, the literal
\* value included, is left as it was.
C23_AnnotationOnlyInserts ==
  \A line \in FormattedLines :
    LET out == ApplyStyle("Use explicit types", line, <<line>>, 1)
    IN out = line \/ OnlyAnnotated(line, out)

\* ---------------------------------------------------------------------------
\* The lines remove-unused-imports takes out
\* ---------------------------------------------------------------------------

\* The import lines of the file: the lines that hold an import statement.
ImportLinesOf(lines) == {i \in 1..Len(lines) : importMatch(lines[i])}

\* Whether the name occurs in some line of the file that is not an import
\* line.
OccursOutsideImports(name, lines) ==
  \E n \in (1..Len(lines)) \ ImportLinesOf(lines) : Includes(lines[n], name)

\* The import lines none of whose names occurs outside the import lines.
ImportsNowhereUsed(lines) ==
  {i \in ImportLinesOf(lines) :
     \A name \in Range(importedItems(lines[i])) : ~OccursOutsideImports(name, lines)}

\* The numbers of a set, ascending.
Ascending(S) == SelectSeq([i \in 1..(IF S = {} THEN 0 ELSE CHOOSE m \in S : \A x \in S : x <= m) |-> i],
                          LAMBDA i : i \in S)

\* C24: remove-unused-imports removes an import line if and only if none of
\* the names it imports occurs in the file outside import lines; every other
\* line is kept, in its original order, and the reported line numbers are
\* the 1-based positions of the removed lines.
C24_RemovesExactlyUnusedImports ==
  Returned("removeUnusedImports") =>
    LET lines   == SplitLines(fn.args[1])
        removed == ImportsNowhereUsed(lines)
        kept    == Ascending((1..Len(lines)) \ removed)
    IN /\ fn.returned.content = JoinLines([k \in 1..Len(kept) |-> lines[kept[k]]])
       /\ fn.returned.removedLines = Ascending(removed)

\* ---------------------------------------------------------------------------
\* One rename per local identifier
\* ---------------------------------------------------------------------------

\* The renames a comparison returned.
RenamesReturned == OfType(ana.comparison.relationships, "method_rename")

\* Whether some baseline identifier that scores best against the local one has
\* a similarity above 0.7 and is another name.
BestScoringIsRename(localMethod, remoteMethods) ==
  \E r \in Range(remoteMethods) :
    /\ \A q \in Range(remoteMethods) :
         ConfGE(calculateMethodSimilarity(localMethod, r),
                calculateMethodSimilarity(localMethod, q))
    /\ ConfGT(calculateMethodSimilarity(localMethod, r), RenameThreshold)
    /\ r # localMethod

\* C25: rename detection returns a record for a local identifier exactly when
\* its best-scoring baseline identifier has a similarity above 0.7 and differs
\* from it, and no local identifier is the newReference of two records.
C25_OneRenamePerIdentifier ==
  ComparedInDepth =>
    /\ \A name \in Range(extractMethods(ana.localContent)) :
         (\E k \in 1..Len(RenamesReturned) : RenamesReturned[k].newReference = name)
           <=> BestScoringIsRename(name, extractMethods(ana.remoteContent))
    /\ \A i, j \in 1..Len(RenamesReturned) :
         RenamesReturned[i].newReference = RenamesReturned[j].newReference => i = j

\* ---------------------------------------------------------------------------
\* The line counter of a comparison
\* ---------------------------------------------------------------------------

\* The physical lines of a block of the diff: a final "\n" ends the last
\* line, it does not start another one.
PhysicalLines(value) ==
  IF value = <<>> THEN <<>>
  ELSE IF value[Len(value)] = "\n" THEN SplitLines(SubSeq(value, 1, Len(value) - 1))
  ELSE SplitLines(value)

\* The number of physical lines of the blocks diff[1..k].
RECURSIVE LinesThrough(_, _)
LinesThrough(diff, k) ==
  IF k = 0 THEN 0 ELSE LinesThrough(diff, k - 1) + Len(PhysicalLines(diff[k].value))

\* For every non-blank line of an Added or a Removed block, in the order of
\* the diff, the number of diff lines before it.
RECURSIVE LinesPreceding(_, _)
LinesPreceding(diff, k) ==
  IF k > Len(diff) THEN <<>>
  ELSE (IF diff[k].added \/ diff[k].removed
        THEN LET lines == PhysicalLines(diff[k].value)
                 at    == SelectSeq([i \in 1..Len(lines) |-> i],
                                    LAMBDA i : Trim(lines[i]) # <<>>)
             IN [n \in 1..Len(at) |-> LinesThrough(diff, k - 1) + at[n] - 1]
        ELSE <<>>)
       \o LinesPreceding(diff, k + 1)

\* C26: the lineNumber of a change is the number of lines of the diff that
\* precede it, the counter advancing once for every physical line of an
\* Unchanged, an Added or a Removed block, blank lines included.
C26_LineNumberCountsDiffLines ==
  ana.pc = "compared" =>
    [k \in 1..Len(ana.comparison.changes) |-> ana.comparison.changes[k].lineNumber]
      = LinesPreceding(ana.diff, 1)

\* ---------------------------------------------------------------------------
\* Logic changes: alignment and direction
\* ---------------------------------------------------------------------------

\* Whether analyzeChanges has returned from a call that ran the logic
\* analysis.
LogicAnalysed ==
  /\ ana.pc = "analyzed"
  /\ ana.options.logicAnalysis
  /\ isCodeFile(ana.fileExtension)

\* The trimmed lines of a text that hold one of the eight keywords as a
\* substring, each line once, in the order of the text.
KeywordLines(content) ==
  LET lines == SplitLines(content)
      at    == SelectSeq([i \in 1..Len(lines) |-> i],
                 LAMBDA i : \E kw \in {KW_IF, KW_ELSE, KW_FOR, KW_WHILE, KW_SWITCH,
                                        KW_CASE, KW_TRY, KW_CATCH} :
                              Includes(Trim(lines[i]), kw))
  IN [k \in 1..Len(at) |-> Trim(lines[at[k]])]

\* The indices at which two sequences differ or only one has an entry.
DifferingIndices(a, b) ==
  {i \in 1..Max2(Len(a), Len(b)) : i > Len(a) \/ i > Len(b) \/ a[i] # b[i]}

\* The entry of a sequence at an index, "none" past its end.
EntryOrNone(a, i) == IF i <= Len(a) THEN a[i] ELSE STR_NONE

\* C27: the logic analysis aligns the keyword lines of the two texts index
\* by index: it returns one logic_change for every index at which they
\* differ or only one has an entry, in index order and about the two entries
\* of that index, none for equal entries, each with confidence 0.9; a line
\* is a keyword line when its trimmed text holds one of the eight keywords
\* as a substring, and it is taken once.
C27_LogicChangesByIndex ==
  LogicAnalysed =>
    LET localFlow  == KeywordLines(ana.localContent)
        remoteFlow == KeywordLines(ana.remoteContent)
        at         == Ascending(DifferingIndices(localFlow, remoteFlow))
        changes    == ana.analysis.logicChanges
    IN /\ Len(changes) = Len(at)
       /\ \A k \in 1..Len(changes) :
            /\ changes[k].type = "logic_change"
            /\ ConfEq(changes[k].confidence, Conf(9, 10))
            /\ {changes[k].oldReference, changes[k].newReference}
                 = {EntryOrNone(localFlow, at[k]), EntryOrNone(remoteFlow, at[k])}

\* The logic analysis of a local text with a line holding two keywords and a
\* line holding "for" inside a longer word, against a baseline with one
\* keyword line, has returned two logic changes.
C27_Witness ==
  /\ LogicAnalysed
  /\ ana.localContent = CODE_ELSE_IF
  /\ ana.remoteContent = CODE_GET_USER_INFO2
  /\ Len(ana.analysis.logicChanges) = 2

\* C28: oldReference is of the baseline and newReference of the local text:
\* a keyword line only the local text has is returned as added, with
\* newReference set to it, one only the baseline has as removed, with
\* oldReference set to it, and a rename goes from a baseline identifier to a
\* local one.
C28_OldIsBaselineNewIsLocal ==
  /\ LogicAnalysed =>
       LET localFlow  == KeywordLines(ana.localContent)
           remoteFlow == KeywordLines(ana.remoteContent)
           at         == Ascending(DifferingIndices(localFlow, remoteFlow))
           changes    == ana.analysis.logicChanges
       IN \A k \in 1..Len(changes) :
            /\ changes[k].oldReference = EntryOrNone(remoteFlow, at[k])
            /\ changes[k].newReference = EntryOrNone(localFlow, at[k])
            /\ at[k] > Len(remoteFlow) => changes[k].description[1] = "Added control flow"
            /\ at[k] > Len(localFlow) => changes[k].description[1] = "Removed control flow"
  /\ \A k \in 1..Len(ana.analysis.methodChanges) :
       /\ ana.analysis.methodChanges[k].oldReference \in Range(extractMethods(ana.remoteContent))
       /\ ana.analysis.methodChanges[k].newReference \in Range(extractMethods(ana.localContent))

\* ---------------------------------------------------------------------------
\* Declarations and references under consistent-naming
\* ---------------------------------------------------------------------------

NAME_MY_VAR == <<"m","y","_","v","a","r">>
NAME_MY_FN == <<"m","y","_","f","n">>
NAME_FOO == <<"f","o","o">>
DECL_CONST_MY_VAR == <<"c","o","n","s","t"," ","m","y","_","v","a","r">>
DECL_CONST_MYVAR == <<"c","o","n","s","t"," ","m","y","V","a","r">>
DECL_FUNCTION_MY_FN == <<"f","u","n","c","t","i","o","n"," ","m","y","_","f","n">>
DECL_FUNCTION_MYFN == <<"f","u","n","c","t","i","o","n"," ","m","y","F","n">>
DECL_CLASS_FOO == <<"c","l","a","s","s"," ","f","o","o">>
DECL_CLASS_FOO_PASCAL == <<"c","l","a","s","s"," ","F","o","o">>

\* The declarations of the contents, each with the name it declares and what
\* it reads once the name is converted.
Declarations ==
  {[name |-> NAME_MY_VAR, declared |-> DECL_CONST_MY_VAR, renamed |-> DECL_CONST_MYVAR],
   [name |-> NAME_MY_FN, declared |-> DECL_FUNCTION_MY_FN, renamed |-> DECL_FUNCTION_MYFN],
   [name |-> NAME_FOO, declared |-> DECL_CLASS_FOO, renamed |-> DECL_CLASS_FOO_PASCAL]}

\* Whether the content given held the declaration and the content returned
\* holds it with the name converted.
RenamedInDeclaration(d) ==
  /\ Includes(fn.args[1], d.declared)
  /\ Includes(fn.returned.content, d.renamed)

\* C29: whenever consistent-naming renames an identifier in a declaration, no
\* occurrence of the old name remains anywhere in the rewritten content.
C29_NoOldNameRemains ==
  Returned("applyNamingPatterns") =>
    \A d \in Declarations :
      RenamedInDeclaration(d) => ~Includes(fn.returned.content, d.name)

\* ---------------------------------------------------------------------------
\* Comparing a text with itself
\* ---------------------------------------------------------------------------

\* C30: a comparison of a local content with an identical baseline, at any
\* depth, returns no changes, no relationships and no recommendations, with
\* totalChanges = significantChanges = 0, complexityScore 0 and impact low.
C30_IdenticalComparesEmpty ==
  (ana.pc = "compared" /\ ana.localContent = ana.remoteContent) =>
    /\ ana.comparison.changes = <<>>
    /\ ana.comparison.relationships = <<>>
    /\ ana.comparison.recommendations = <<>>
    /\ ana.comparison.metrics.totalChanges = 0
    /\ ana.comparison.metrics.significantChanges = 0
    /\ ConfEq(ana.comparison.metrics.complexityScore, ConfZero)
    /\ ana.comparison.metrics.maintainabilityImpact = "low"

\* A comprehensive comparison of a text that declares a function and has a
\* control-flow line with itself has returned.
C30_Witness ==
  /\ ana.pc = "compared"
  /\ ana.depth = "comprehensive"
  /\ ana.localContent = CODE_GET_USER_INFO2
  /\ ana.remoteContent = CODE_GET_USER_INFO2
  /\ extractMethods(ana.localContent) # <<>>
  /\ ana.comparison.relationships = <<>>

\* ---------------------------------------------------------------------------
\* Two invocations on different files
\* ---------------------------------------------------------------------------

\* The invocation of a slot: the one that runs or the one that waits.
FrameOf(slot) ==
  IF slot = parked.slot THEN [call |-> parked.call, hist |-> parked.hist, ana |-> parked.ana]
  ELSE [call |-> call, hist |-> hist, ana |-> ana]

\* Whether an invocation is over, and what it gave back.
Finished(f) == f.call.pc \in {"returned", "threw"} \/ f.ana.pc = "compared"
BothFinished == parked.slot \in {1, 2} /\ Finished(FrameOf(1)) /\ Finished(FrameOf(2))
ValueOf(f) == [comparison |-> f.ana.comparison, result |-> f.call.result, error |-> f.call.error]

\* The rule loop of refactorFile run to its end with nothing in between.
RECURSIVE RunRules(_)
RunRules(c) ==
  IF c.rule > Len(rulesToApply(c.options)) THEN c
  ELSE RunRules(TakeRuleChanges(c, applyRule(CurrentRule(c), c.filePath, RuleInput(c),
                                             extractPatterns)))

\* A refactoring of the file at path run alone on the files fs: the files it
\* leaves and what it gives back.
SoloRefactoring(path, options, fs) ==
  LET backed == IF options.createBackup
                THEN (BackupPathOf(path) :> fs.content[path]) @@ fs.backups
                ELSE fs.backups
      c      == RunRules([CallIdle EXCEPT
                            !.targetPath = path, !.options = options,
                            !.backupPath = IF options.createBackup THEN BackupPathOf(path)
                                           ELSE Undefined,
                            !.filePath = path, !.content = fs.content[path],
                            !.modifiedContent = fs.content[path], !.rule = 1])
      done   == FileDone(c)
  IN IF c.hasChanges /\ ~MayWrite(c)
     THEN [fs |-> [content |-> fs.content, backups |-> backed],
           value |-> [comparison |-> NoComparison, result |-> CallIdle.result,
                      error |-> Throw(c, LogicVerificationFailed(path)).error]]
     ELSE [fs |-> [content |-> IF c.hasChanges
                               THEN [fs.content EXCEPT ![path] = c.modifiedContent]
                               ELSE fs.content,
                   backups |-> backed],
           value |-> [comparison |-> NoComparison,
                      result |-> [files |-> done.processedFiles, changes |-> done.changes,
                                  backupPath |-> done.backupPath],
                      error |-> Undefined]]

\* A comparison of the file at path run alone on the files fs.
SoloComparison(path, remoteContent, depth, fs) ==
  [fs |-> fs,
   value |-> [comparison |-> compareFiles(fs.content[path], remoteContent, depth),
              result |-> CallIdle.result, error |-> Undefined]]

\* What was asked of the invocation of a slot, run alone on the files fs.
Solo(slot, fs) ==
  IF FrameOf(slot).ana.pc = "compared"
  THEN SoloComparison(ConcurrentPaths[slot], FrameOf(slot).ana.remoteContent,
                      FrameOf(slot).ana.depth, fs)
  ELSE SoloRefactoring(ConcurrentPaths[slot], FrameOf(slot).call.options, fs)

\* The two invocations one after the other, from the files both began with.
SecondAfter(first, second, o1) ==
  [fs |-> Solo(second, o1.fs).fs,
   values |-> (first :> o1.value) @@ (second :> Solo(second, o1.fs).value)]
OneAfterTheOther(first, second) ==
  SecondAfter(first, second, Solo(first, [content |-> parked.disk0, backups |-> EmptyMap]))

\* Whether the files and the two values are those of a run in sequence.
SameAs(seq) ==
  /\ disk.content = seq.fs.content
  /\ backups = seq.fs.backups
  /\ \A slot \in {1, 2} : ValueOf(FrameOf(slot)) = seq.values[slot]

\* C21: two invocations on different files, a comparison or a refactoring
\* each, interleaved at their awaits in any way, give back the same values
\* and leave the same files as one run after the other, in either order.
C21_InterleavingAsSequential ==
  BothFinished => SameAs(OneAfterTheOther(1, 2)) /\ SameAs(OneAfterTheOther(2, 1))

\* Two refactorings that both began on the files as they first were, each
\* before the other wrote, have both written their file and returned.
C21_Witness ==
  /\ BothFinished
  /\ \A slot \in {1, 2} :
       /\ FrameOf(slot).call.pc = "returned"
       /\ FrameOf(slot).hist.disk0 = parked.disk0
       /\ Len(FrameOf(slot).hist.writes) = 1
       /\ disk.content[ConcurrentPaths[slot]] # parked.disk0[ConcurrentPaths[slot]]


=============================================================================
